---- MODULE Spec2Model ----
(***************************************************************************)
(* Batch refresh orchestrators of PKMN-Cataloguer (pricing refresh and     *)
(* metadata refresh), the JobHistory ledger they write, and the card       *)
(* records they update.                                                    *)
(*                                                                         *)
(* Granularity: every "with get_db_session()" block is one transaction and *)
(* is taken as atomic; code between two awaits that really suspend (a      *)
(* network fetch, asyncio.sleep) runs as one step.  The coroutines         *)
(* _create_job_history, _update_job_progress, _update_job_history and      *)
(* _mark_*_as_failed contain no suspending await, so "await"-ing them does *)
(* not yield.  Wall-clock time is abstracted: a timeout is a               *)
(* nondeterministic event at a suspension point.                           *)
(***************************************************************************)
EXTENDS Integers, Sequences, FiniteSets, TLC

\* ------------------------------------------------------------------ bounds
MaxRows == 2          \* JobHistory rows ever written
NumCards == 2         \* card ids 1..NumCards
MaxClock == 2         \* values of the wall clock
MaxQty == 2           \* copies of one card in the collection
BatchSize == 2        \* settings.price_refresh_batch_size, scaled down

\* ------------------------------------------------------------ enumerations
Procs == {"sched_prices", "manual_prices", "manual_metadata"}
PricingProcs == {"sched_prices", "manual_prices"}
MetadataProcs == {"manual_metadata"}

CardIds == 1 .. NumCards
Requests == {"first", "second"}      \* collection requests handled at the same time
ProductIds == {1, 2}                 \* product ids of the pricing site
Null == 0 - 1                       \* a NULL timestamp / a None job id is 0
None == "None"                      \* Python None in a string-valued field
Absent == "<absent>"                \* key missing from an API record
EmptyList == "[]"

VARIABLES
    ledger,        \* JobHistory table: row id = index
    run,           \* per entry point: position and locals of _refresh_*_impl
    cards,         \* Card table: id -> record
    links,         \* PriceChartingLink table: card id -> record
    snapshots,     \* PriceSnapshot table, in insertion order
    collection,    \* CollectionEntry table: card id -> qty
    clock,         \* datetime.utcnow(), abstracted
    api,           \* what the remote metadata API serves
    site,          \* what the remote pricing site serves
    response,      \* last answer of each manual-trigger route
    runEnd,        \* history: how the run that wrote row i returned, and its result
    matcher,       \* TCGdxAPIService._find_best_match: the last call and its result
    gate,          \* a fetch gate: its last-call timestamp and the last call
    scraper,       \* PriceChartingScraper: its cache and the last scrape
    text,          \* the last call of a text function and its result
    inflight       \* HTTP requests of the collection routes being handled

vars == <<ledger, run, cards, links, snapshots, collection, clock, api, site,
          response, runEnd, matcher, gate, scraper, text, inflight>>

\* ------------------------------------------------------- job identification
JobName(p) ==
    CASE p = "sched_prices" -> "daily_prices"
      [] p = "manual_prices" -> "manual_refresh"
      [] p = "manual_metadata" -> "manual_metadata_refresh"

JobType(p) == IF p = "sched_prices" THEN "scheduled" ELSE "manual"


\* JobHistory.job_name.like("%metadata%")
LikeMetadata(job_name) == job_name \in {"weekly_metadata", "manual_metadata_refresh"}

Terminal == {"completed", "completed_with_errors", "failed"}

\* ------------------------------------------------------------ ledger writes
NewRow(job_type, job_name) ==
    [job_type |-> job_type, job_name |-> job_name, status |-> "running",
     processed |-> 0, succeeded |-> 0, failed |-> 0, error_message |-> None]

CreateJobHistory(L, job_type, job_name) == Append(L, NewRow(job_type, job_name))

UpdateJobProgress(L, id, processed, succeeded, failed) ==
    IF id \in DOMAIN L
    THEN [L EXCEPT ![id].processed = processed,
                   ![id].succeeded = succeeded,
                   ![id].failed = failed]
    ELSE L

\* a variant in which any failure makes the run `failed`
CompletionStatusStrict(failed) == IF failed = 0 THEN "completed" ELSE "failed"

CompletionStatus(failed) == IF failed = 0 THEN "completed" ELSE "completed_with_errors"

\* a variant that writes the final counters and leaves the status as it is
UpdateJobHistoryCountersOnly(L, id, processed, succeeded, failed) ==
    UpdateJobProgress(L, id, processed, succeeded, failed)

UpdateJobHistory(L, id, processed, succeeded, failed) ==
    IF id \in DOMAIN L
    THEN [L EXCEPT ![id].status = CompletionStatus(failed),
                   ![id].processed = processed,
                   ![id].succeeded = succeeded,
                   ![id].failed = failed]
    ELSE L

\* a variant that records the skipped run as one failed item
MarkJobAsFailedCounting(L, id, error_message) ==
    IF id \in DOMAIN L
    THEN [L EXCEPT ![id].status = "completed_with_errors",
                   ![id].error_message = error_message,
                   ![id].failed = 1]
    ELSE L

MarkJobAsFailed(L, id, error_message) ==
    IF id \in DOMAIN L
    THEN [L EXCEPT ![id].status = "failed",
                   ![id].error_message = error_message,
                   ![id].processed = 0,
                   ![id].succeeded = 0,
                   ![id].failed = 0]
    ELSE L

PricingMarkRunningJobsAsFailed(L, error_message) ==
    [i \in DOMAIN L |->
        IF L[i].status = "running"
        THEN [L[i] EXCEPT !.status = "failed", !.error_message = error_message]
        ELSE L[i]]

MetadataMarkRunningJobsAsFailed(L, error_message) ==
    [i \in DOMAIN L |->
        IF L[i].status = "running" /\ LikeMetadata(L[i].job_name)
        THEN [L[i] EXCEPT !.status = "failed", !.error_message = error_message]
        ELSE L[i]]

MarkRunningJobsAsFailed(p, L, error_message) ==
    IF p \in PricingProcs
    THEN PricingMarkRunningJobsAsFailed(L, error_message)
    ELSE MetadataMarkRunningJobsAsFailed(L, error_message)

TimeoutMessage(p) ==
    CASE p = "sched_prices" -> "Job timed out"
      [] p = "manual_prices" -> "Manual job timed out"
      [] p = "manual_metadata" -> "Manual metadata job timed out"

UnavailableMessage == "TCGdx API is currently unavailable"

\* ------------------------------------------------------- remote metadata API
\* A raw TCGdx card record.  Every value is a string: "60" is the JSON number
\* 60, "'60'" the JSON string "60", "[fire]" a JSON list, "fire" a JSON string
\* where a list is expected, None a JSON null, Absent a missing key.
ApiFull ==
    [id |-> "sm4-57", name |-> "Alpha", hp |-> "'60'", types |-> "[fire]",
     retreat |-> "1", set |-> "Base", localId |-> "57"]
ApiSparse ==
    [id |-> "sm4-58", name |-> "Alpha GX", hp |-> Absent, types |-> Absent,
     retreat |-> Absent, set |-> Absent, localId |-> Absent]
ApiNoName ==
    [id |-> "sm4-59", name |-> None, hp |-> "60", types |-> "[fire]",
     retreat |-> "1", set |-> "Base", localId |-> "57"]
ApiBadList ==
    [id |-> "sm4-60", name |-> "Alpha", hp |-> "junk", types |-> "fire",
     retreat |-> "1", set |-> "Base", localId |-> "57"]
ApiNullSet ==
    [id |-> "sm4-61", name |-> "Alpha", hp |-> "60", types |-> "[fire]",
     retreat |-> "1", set |-> None, localId |-> "57"]

ApiUniverse == {ApiFull, ApiSparse, ApiNoName, ApiBadList, ApiNullSet}
NoMatch == [id |-> Absent, name |-> Absent, hp |-> Absent, types |-> Absent,
            retreat |-> Absent, set |-> Absent, localId |-> Absent]

\* dict.get(key): a missing key reads as None
Get(v) == IF v = Absent THEN None ELSE v
\* dict.get(key, default)
GetDefault(v, default) == IF v = Absent THEN default ELSE v

IntLiterals == {"0", "1", "60"}
SafeInt(v) ==
    IF v \in IntLiterals THEN v
    ELSE IF v = "'60'" THEN "60"
    ELSE IF v = "'1'" THEN "1"
    ELSE None

IsList(v) == v \in {EmptyList, "[fire]"}

Empty == [failed |-> TRUE]          \* the {} that extract_card_data returns on error

IsEmptyDict(d) == "failed" \in DOMAIN d

ExtractCardData(api_card, now) ==
    IF api_card.set = None
    THEN Empty                      \* None.get(...) raises; caught; returns {}
    ELSE [api_id |-> Get(api_card.id),
          name |-> Get(api_card.name),
          hp |-> SafeInt(Get(api_card.hp)),
          types |-> GetDefault(api_card.types, EmptyList),
          retreat_cost |-> SafeInt(GetDefault(api_card.retreat, "0")),
          set_name |-> Get(api_card.set),
          number |-> Get(api_card.localId),
          api_last_synced_at |-> now]

\* a variant that does not require the name
ValidateCardDataLax(extracted_data) ==
    extracted_data.api_last_synced_at # Null

\* _validate_card_data: the verdict ...
ValidateCardData(extracted_data) ==
    /\ extracted_data.name # None
    /\ extracted_data.api_last_synced_at # Null

\* ... and its in-place repairs of extracted_data
RepairCardData(extracted_data) ==
    [extracted_data EXCEPT
        !.hp = IF @ # None /\ @ \notin IntLiterals THEN None ELSE @,
        !.types = IF @ # None /\ ~IsList(@) THEN EmptyList ELSE @]

\* for field, value in extracted_data.items(): setattr(card, field, value)
SetAttrs(card, extracted_data, skip) ==
    [f \in DOMAIN card |->
        IF f \in DOMAIN extracted_data /\ f \notin skip
        THEN extracted_data[f]
        ELSE card[f]]

RefreshSkipFields == {}
SelectSkipFields == {"name"}

ApplyRefreshMetadata(card, extracted_data, now) ==
    [SetAttrs(card, extracted_data, RefreshSkipFields) EXCEPT !.api_last_synced_at = now]

ApplySelectMetadata(card, extracted_data, now) ==
    [SetAttrs(card, extracted_data, SelectSkipFields) EXCEPT !.api_last_synced_at = now]

\* MetadataRefreshService._process_single_card, after the lookup returned
\* api_card_data: the card table afterwards and the returned success flag
MetadataProcessSingleCard(C, id, api_card_data, now) ==
    LET extracted_data == ExtractCardData(api_card_data, now) IN
    IF api_card_data = NoMatch THEN [cards |-> C, success |-> FALSE]
    ELSE IF IsEmptyDict(extracted_data) THEN [cards |-> C, success |-> FALSE]
    ELSE IF ~ValidateCardData(extracted_data) THEN [cards |-> C, success |-> FALSE]
    ELSE IF id \notin DOMAIN C THEN [cards |-> C, success |-> FALSE]
    ELSE [cards |-> [C EXCEPT ![id] = ApplyRefreshMetadata(@, RepairCardData(extracted_data), now)],
          success |-> TRUE]

\* --------------------------------------------------------- candidate queries
Min(a, b) == IF a < b THEN a ELSE b

\* ORDER BY key ASC NULLS FIRST (Null is the least value); rows with equal
\* keys come in primary-key order
RECURSIVE OrderBy(_, _)
OrderBy(S, key) ==
    IF S = {} THEN <<>>
    ELSE LET m == CHOOSE x \in S : \A y \in S :
                    key[x] < key[y] \/ (key[x] = key[y] /\ x <= y)
         IN <<m>> \o OrderBy(S \ {m}, key)

Limit(seq, n) == SubSeq(seq, 1, Min(Len(seq), n))

NeverKey == [c \in CardIds |-> 0]

PricingCardsForRefresh(C, K, card_ids) ==
    LET joined == DOMAIN C \cap DOMAIN K IN
    IF card_ids # {}
    THEN OrderBy(joined \cap card_ids, NeverKey)
    ELSE Limit(OrderBy(joined, [c \in joined |-> K[c].last_synced_at]), BatchSize)

NeedsMetadata(card) ==
    card.api_id = None \/ card.api_last_synced_at = Null \/ card.hp = None

MetadataCardsForRefresh(C, card_ids) ==
    IF card_ids # {}
    THEN OrderBy(DOMAIN C \cap card_ids, NeverKey)
    ELSE LET due == {c \in DOMAIN C : NeedsMetadata(C[c])} IN
         Limit(OrderBy(due, [c \in due |-> C[c].api_last_synced_at]), BatchSize)

\* ------------------------------------------------------- pricing-site scrape
OffersUrl == "offers"
GameUrl == "/game/pokemon-"
NoResult == [pricing_data |-> Absent, final_url |-> Absent]
ScrapeResults ==
    {NoResult} \cup [pricing_data : {"prices", None}, final_url : {OffersUrl, GameUrl}]

RetentionYears == 1

CleanupOldSnapshots(S, card_id, today) ==
    SelectSeq(S, LAMBDA s : ~(s.card_id = card_id /\ s.as_of_date < today - RetentionYears))

\* date.today().replace(year=date.today().year - 1) raises ValueError on
\* 29 February: there is no such day in the year before
CutoffRaises(feb29) == feb29

\* the INSERT of a snapshot whose card is gone: IntegrityError on a connection
\* that enforces foreign keys.  PRAGMA foreign_keys=ON is executed on one
\* connection in init_db, and the pragma holds per connection, so whether the
\* session's connection enforces them is not fixed by the code.
InsertRaises(C, id, foreign_keys) == foreign_keys /\ id \notin DOMAIN C

\* the snapshot row _process_single_card adds
NewSnapshot(id, now) == [card_id |-> id, as_of_date |-> now, source |-> "pricecharting"]

\* a variant that keeps the added snapshot when the cleanup raises
PricingProcessSingleCardKeepingAdded(C, K, S, id, scrape_result, now, feb29, foreign_keys) ==
    IF scrape_result = NoResult
    THEN [links |-> K, snapshots |-> S, success |-> FALSE]
    ELSE IF scrape_result.pricing_data # None /\ InsertRaises(C, id, foreign_keys)
    THEN [links |-> K, snapshots |-> S, success |-> FALSE]
    ELSE IF scrape_result.pricing_data # None /\ CutoffRaises(feb29)
    THEN [links |-> K, snapshots |-> Append(S, NewSnapshot(id, now)), success |-> FALSE]
    ELSE LET prices == scrape_result.pricing_data # None
             S1 == IF prices THEN Append(S, NewSnapshot(id, now)) ELSE S
             K1 == IF id \in DOMAIN K
                   THEN [K EXCEPT ![id].last_synced_at = now,
                                  ![id].pc_game_url =
                                      IF scrape_result.final_url = GameUrl THEN GameUrl ELSE @]
                   ELSE K
             S2 == IF prices THEN CleanupOldSnapshots(S1, id, now) ELSE S1
         IN [links |-> K1, snapshots |-> S2, success |-> TRUE]

\* PricingRefreshService._process_single_card, after the scrape returned.
\* feb29: date.today() is 29 February.  An exception inside the session block
\* leaves the block without commit, and the method returns False.
PricingProcessSingleCard(C, K, S, id, scrape_result, now, feb29, foreign_keys) ==
    IF scrape_result = NoResult
    THEN [links |-> K, snapshots |-> S, success |-> FALSE]
    ELSE IF scrape_result.pricing_data # None /\ InsertRaises(C, id, foreign_keys)
    THEN [links |-> K, snapshots |-> S, success |-> FALSE]
    ELSE IF scrape_result.pricing_data # None /\ CutoffRaises(feb29)
    THEN [links |-> K, snapshots |-> S, success |-> FALSE]
    ELSE LET prices == scrape_result.pricing_data # None
             S1 == IF prices
                   THEN Append(S, NewSnapshot(id, now))
                   ELSE S
             K1 == IF id \in DOMAIN K
                   THEN [K EXCEPT ![id].last_synced_at = now,
                                  ![id].pc_game_url =
                                      IF scrape_result.final_url = GameUrl THEN GameUrl ELSE @]
                   ELSE K
             S2 == IF prices THEN CleanupOldSnapshots(S1, id, now) ELSE S1
         IN [links |-> K1, snapshots |-> S2, success |-> TRUE]


\* ------------------------------------------------------------ initial state
store == <<cards, links, snapshots, collection>>
env == <<clock, api, site>>
lib == <<matcher, gate, scraper, text, inflight>>

\* history: what the _process_single_card call just returned was given
NoItem == [card |-> 0, success |-> FALSE, input |-> NoResult]

IdleRun ==
    [pc |-> "idle", job_history_id |-> 0, processed |-> 0, succeeded |-> 0,
     failed |-> 0, cards_to_update |-> <<>>, attempts |-> <<>>, card_ids |-> {},
     last |-> NoItem]

\* a card as select_card creates it, before any metadata sync
TcgId(product_id) == <<"pc_", product_id>>

NewCard(name) ==
    [tcg_id |-> None, name |-> name, api_id |-> None, hp |-> None, types |-> None,
     retreat_cost |-> None, set_name |-> "Base", number |-> "57",
     api_last_synced_at |-> Null]

NewLink(product_id) ==
    [pc_product_id |-> product_id, pc_game_url |-> None, last_synced_at |-> Null]

CardNames == {"Alpha", "Beta"}
InitialName(c) == IF c = 1 THEN "Alpha" ELSE "Beta"

\* a request slot between two requests.  route, existing_link and status are
\* history: the route of the last request, the link it found and its answer
IdleRequest(route, existing_link, status) ==
    [pc |-> "idle", route |-> route, pc_url |-> <<>>, pc_product_id |-> 0, name |-> "",
     existing_link |-> existing_link, card_id |-> 0, status |-> status]

\* no call of the component was made yet
NoCall == [fn |-> "none"]

\* PriceChartingScraper.__init__ / TCGdxAPIService.__init__: the gate before
\* its first call.  now is the clock the gate reads; called_at, slept,
\* returned_at and prev_return are history of the last call and the last two
\* returns.
\* callers holds the position and the wake time of each of
\* the coroutines that are inside the gate together.
NewGate ==
    [pc |-> "idle", last_request_time |-> 0, now |-> 0, wake |-> 0,
     called_at |-> Null, elapsed |-> 0, slept |-> FALSE,
     returned_at |-> Null, prev_return |-> Null,
     callers |-> [r \in Requests |-> [pc |-> "idle", wake |-> 0]]]

\* PriceChartingScraper.__init__: the empty cache.  now is time.time() in
\* hours; requested, called_at, prior, fetches and result are history of the
\* last call from outside, done the last successful result per requested URL.
NewScraper ==
    [pc |-> "idle", cache |-> <<>>, now |-> 0, url |-> None,
     requested |-> None, called_at |-> 0, prior |-> <<>>, fetches |-> 0,
     result |-> NoResult, done |-> <<>>]

\* the collection holds the cards `existing`, each selected once and never synced
InitWith(existing, served_api, served_site) ==
    /\ ledger = <<>>
    /\ run = [p \in Procs |-> IdleRun]
    /\ cards = [c \in existing |-> [NewCard(InitialName(c)) EXCEPT !.tcg_id = TcgId(c)]]
    /\ links = [c \in existing |-> NewLink(c)]
    /\ snapshots = <<>>
    /\ collection = [c \in existing |-> 1]
    /\ clock = 0
    /\ api = served_api
    /\ site = served_site
    /\ response = [route \in {"pricing", "metadata"} |-> 0]
    /\ runEnd = <<>>
    /\ matcher = NoCall
    /\ gate = NewGate
    /\ scraper = NewScraper
    /\ text = NoCall
    /\ inflight = [r \in Requests |-> IdleRequest(None, 0, 0)]

Init ==
    InitWith(CardIds, {ApiFull},
             {NoResult, [pricing_data |-> None, final_url |-> GameUrl]})

\* ------------------------------------------------------------ orchestration
\* the dict a run returns: {"processed": ..., "succeeded": ..., "failed": ...}
Returned(how, processed, succeeded, failed) ==
    [how |-> how, processed |-> processed, succeeded |-> succeeded, failed |-> failed]

Pending == Cardinality({p \in Procs : run[p].pc \in {"spawned", "probe"}})
RoomForRun == Len(ledger) + Pending < MaxRows

CardsForRefresh(p, card_ids) ==
    IF p \in PricingProcs
    THEN PricingCardsForRefresh(cards, links, card_ids)
    ELSE MetadataCardsForRefresh(cards, card_ids)

\* _refresh_*_impl from _create_job_history to the first await of the loop
BeginRun(p, card_ids) ==
    LET L1 == CreateJobHistory(ledger, JobType(p), JobName(p))
        id == Len(L1)
        cards_to_update == CardsForRefresh(p, card_ids)
    IN IF cards_to_update = <<>>
       THEN /\ ledger' = UpdateJobHistory(L1, id, 0, 0, 0)
            /\ run' = [run EXCEPT ![p] = IdleRun]
            /\ runEnd' = Append(runEnd, Returned("no_cards", 0, 0, 0))
       ELSE /\ ledger' = L1
            /\ run' = [run EXCEPT ![p] =
                    [pc |-> "item", job_history_id |-> id, processed |-> 1,
                     succeeded |-> 0, failed |-> 0,
                     cards_to_update |-> cards_to_update,
                     attempts |-> <<cards_to_update[1]>>, card_ids |-> {},
                     last |-> NoItem]]
            /\ runEnd' = Append(runEnd, Returned("running", 0, 0, 0))

\* a variant in which the first failed item ends the loop
NextCardOrFinishAborting(p, r, L) ==
    IF r.processed < Len(r.cards_to_update) /\ r.failed = 0
    THEN /\ ledger' = L
         /\ run' = [run EXCEPT ![p] =
                 [r EXCEPT !.pc = "item", !.processed = @ + 1,
                           !.attempts = Append(@, r.cards_to_update[r.processed + 1]),
                           !.last = NoItem]]
         /\ UNCHANGED runEnd
    ELSE /\ ledger' = UpdateJobHistory(L, r.job_history_id, r.processed, r.succeeded, r.failed)
         /\ run' = [run EXCEPT ![p] = IdleRun]
         /\ runEnd' = [runEnd EXCEPT ![r.job_history_id] =
                          Returned("loop", r.processed, r.succeeded, r.failed)]

\* the for loop moves on: the next card, or the finally block after the last
NextCardOrFinish(p, r, L) ==
    IF r.processed < Len(r.cards_to_update)
    THEN /\ ledger' = L
         /\ run' = [run EXCEPT ![p] =
                 [r EXCEPT !.pc = "item", !.processed = @ + 1,
                           !.attempts = Append(@, r.cards_to_update[r.processed + 1]),
                           !.last = NoItem]]
         /\ UNCHANGED runEnd
    ELSE /\ ledger' = UpdateJobHistory(L, r.job_history_id, r.processed, r.succeeded, r.failed)
         /\ run' = [run EXCEPT ![p] = IdleRun]
         /\ runEnd' = [runEnd EXCEPT ![r.job_history_id] =
                          Returned("loop", r.processed, r.succeeded, r.failed)]

AnyRunning(L) == \E i \in DOMAIN L : L[i].status = "running"
AnyMetadataRunning(L) ==
    \E i \in DOMAIN L : L[i].status = "running" /\ LikeMetadata(L[i].job_name)

CardIdInputs == {{}, {1}, {NumCards + 1}}

\* the scheduler fires refresh_prices
FireScheduledPrices ==
    /\ run["sched_prices"].pc = "idle"
    /\ RoomForRun
    /\ BeginRun("sched_prices", {})
    /\ UNCHANGED <<store, env, lib, response>>

\* POST /api/settings/pricing/run
TriggerManualRefresh(card_ids) ==
    /\ run["manual_prices"].pc = "idle"
    /\ IF AnyRunning(ledger)
       THEN /\ response' = [response EXCEPT !["pricing"] = 409]
            /\ UNCHANGED run
       ELSE /\ RoomForRun
            /\ response' = [response EXCEPT !["pricing"] = 200]
            /\ run' = [run EXCEPT !["manual_prices"] =
                          [IdleRun EXCEPT !.pc = "spawned", !.card_ids = card_ids]]
    /\ UNCHANGED <<ledger, store, env, lib, runEnd>>

\* POST /api/refresh-prices
AdminManualPriceRefresh(card_ids) ==
    /\ run["manual_prices"].pc = "idle"
    /\ RoomForRun
    /\ BeginRun("manual_prices", card_ids)
    /\ UNCHANGED <<store, env, lib, response>>

\* POST /api/settings/metadata/run
TriggerManualMetadataRefresh(card_ids) ==
    /\ run["manual_metadata"].pc = "idle"
    /\ IF AnyMetadataRunning(ledger)
       THEN /\ response' = [response EXCEPT !["metadata"] = 409]
            /\ UNCHANGED run
       ELSE /\ RoomForRun
            /\ response' = [response EXCEPT !["metadata"] = 200]
            /\ run' = [run EXCEPT !["manual_metadata"] =
                          [IdleRun EXCEPT !.pc = "spawned", !.card_ids = card_ids]]
    /\ UNCHANGED <<ledger, store, env, lib, runEnd>>

\* the background thread of a manual trigger starts manual_refresh
ThreadStart(p) ==
    /\ run[p].pc = "spawned"
    /\ IF p \in PricingProcs
       THEN BeginRun(p, run[p].card_ids)
       ELSE /\ run' = [run EXCEPT ![p].pc = "probe"]
            /\ UNCHANGED <<ledger, runEnd>>
    /\ UNCHANGED <<store, env, lib, response>>

\* tcgdx_api.is_available() returns
ProbeReturns(p, api_available) ==
    /\ p \in MetadataProcs
    /\ run[p].pc = "probe"
    /\ IF api_available
       THEN BeginRun(p, run[p].card_ids)
       ELSE LET L1 == CreateJobHistory(ledger, JobType(p), JobName(p)) IN
            /\ ledger' = MarkJobAsFailed(L1, Len(L1), UnavailableMessage)
            /\ run' = [run EXCEPT ![p] = IdleRun]
            /\ runEnd' = Append(runEnd, Returned("unavailable", 0, 0, 0))
    /\ UNCHANGED <<store, env, lib, response>>

\* if success: succeeded += 1 else: failed += 1
Count(r, success) ==
    IF success THEN [r EXCEPT !.succeeded = @ + 1] ELSE [r EXCEPT !.failed = @ + 1]

CurrentCard(r) == r.cards_to_update[r.processed]

\* wait_for(_process_single_card) returns in the pricing loop
PricingItemReturns(p, scrape_result) ==
    /\ p \in PricingProcs
    /\ run[p].pc = "item"
    /\ \E feb29 \in BOOLEAN, foreign_keys \in BOOLEAN :
       LET out == PricingProcessSingleCard(cards, links, snapshots, CurrentCard(run[p]),
                                           scrape_result, clock, feb29, foreign_keys)
           r == Count(run[p], out.success)
       IN /\ links' = out.links
          /\ snapshots' = out.snapshots
          /\ ledger' = UpdateJobProgress(ledger, r.job_history_id, r.processed, r.succeeded, r.failed)
          /\ run' = [run EXCEPT ![p] = [r EXCEPT !.pc = "pause", !.last =
                  [card |-> CurrentCard(r), success |-> out.success, input |-> scrape_result]]]
    /\ UNCHANGED <<cards, collection, env, lib, response, runEnd>>

\* wait_for(_process_single_card) returns in the metadata loop
MetadataItemReturns(p, api_card_data) ==
    /\ p \in MetadataProcs
    /\ run[p].pc = "item"
    /\ LET out == MetadataProcessSingleCard(cards, CurrentCard(run[p]), api_card_data, clock)
           r == Count(run[p], out.success)
       IN /\ cards' = out.cards
          /\ ledger' = UpdateJobProgress(ledger, r.job_history_id, r.processed, r.succeeded, r.failed)
          /\ run' = [run EXCEPT ![p] = [r EXCEPT !.pc = "pause", !.last =
                  [card |-> CurrentCard(r), success |-> out.success, input |-> api_card_data]]]
    /\ UNCHANGED <<links, snapshots, collection, env, lib, response, runEnd>>

\* wait_for(_process_single_card) raises TimeoutError: except asyncio.TimeoutError
ItemTimeout(p) ==
    /\ run[p].pc = "item"
    /\ NextCardOrFinish(p, [run[p] EXCEPT !.failed = @ + 1], ledger)
    /\ UNCHANGED <<store, env, lib, response>>

\* min(2 ** min(failed, 6), 30): the backoff without its jitter
BackoffBase(failed) == Min(2 ^ Min(failed, 6), 30)

\* wait_for(_process_single_card) raises another exception: except Exception
ItemRaises(p) ==
    /\ run[p].pc = "item"
    /\ run' = [run EXCEPT ![p].failed = @ + 1, ![p].pc = "backoff"]
    /\ UNCHANGED <<ledger, store, env, lib, response, runEnd>>

\* asyncio.sleep(backoff_time) of the except Exception branch ends
BackoffDone(p) ==
    /\ run[p].pc = "backoff"
    /\ NextCardOrFinish(p, run[p], ledger)
    /\ UNCHANGED <<store, env, lib, response>>

\* the rate-limit sleep after an item ends
SleepDone(p) ==
    /\ run[p].pc = "pause"
    /\ NextCardOrFinish(p, run[p], ledger)
    /\ UNCHANGED <<store, env, lib, response>>

\* _create_job_history fails in storage: it logs and re-raises, the outer
\* except Exception of _refresh_prices_impl returns {"error": ...}, and the
\* finally block finds job_history_id None
CreateJobHistoryFails(p) ==
    /\ p \in PricingProcs
    /\ run[p].pc = "idle"
    /\ run' = [run EXCEPT ![p].pc = "error"]
    /\ UNCHANGED <<ledger, store, env, lib, response, runEnd>>

\* the caller of the run receives the error dict
ErrorReturned(p) ==
    /\ run[p].pc = "error"
    /\ run' = [run EXCEPT ![p] = IdleRun]
    /\ UNCHANGED <<ledger, store, env, lib, response, runEnd>>

\* the item returns and _update_job_progress fails in storage: logged only
ProgressWriteFails(p, scrape_result) ==
    /\ p \in PricingProcs
    /\ run[p].pc = "item"
    /\ \E feb29 \in BOOLEAN, foreign_keys \in BOOLEAN :
       LET out == PricingProcessSingleCard(cards, links, snapshots, CurrentCard(run[p]),
                                           scrape_result, clock, feb29, foreign_keys)
           r == Count(run[p], out.success)
       IN /\ links' = out.links
          /\ snapshots' = out.snapshots
          /\ run' = [run EXCEPT ![p] = [r EXCEPT !.pc = "pause", !.last =
                  [card |-> CurrentCard(r), success |-> out.success, input |-> scrape_result]]]
    /\ UNCHANGED <<ledger, cards, collection, env, lib, response, runEnd>>

\* the loop ends and _update_job_history fails in storage: logged only
CompletionWriteFails(p) ==
    /\ run[p].pc = "pause"
    /\ run[p].processed = Len(run[p].cards_to_update)
    /\ runEnd' = [runEnd EXCEPT ![run[p].job_history_id] =
                     Returned("loop", run[p].processed, run[p].succeeded, run[p].failed)]
    /\ run' = [run EXCEPT ![p] = IdleRun]
    /\ UNCHANGED <<ledger, store, env, lib, response>>

\* PATCH /collection/{entry_id} with a quantity: zero or less deletes the
\* entry and, as it was the card's last, the card's snapshots, link and card
UpdateCollectionEntry(c, qty) ==
    /\ c \in DOMAIN collection
    /\ IF qty <= 0
       THEN LET kept == DOMAIN collection \ {c} IN
            /\ collection' = [d \in kept |-> collection[d]]
            /\ snapshots' = SelectSeq(snapshots, LAMBDA s : s.card_id # c)
            /\ links' = [d \in DOMAIN links \ {c} |-> links[d]]
            /\ cards' = [d \in DOMAIN cards \ {c} |-> cards[d]]
       ELSE /\ collection' = [collection EXCEPT ![c] = qty]
            /\ UNCHANGED <<cards, links, snapshots>>
    /\ UNCHANGED <<ledger, run, env, lib, response, runEnd>>

\* the whole-job wait_for cancels the run: CancelledError passes the except
\* clauses and the finally block runs _update_job_history
JobTimeout(p) ==
    /\ run[p].pc \in {"item", "pause", "backoff"}
    /\ LET r == run[p] IN
       /\ ledger' = UpdateJobHistory(ledger, r.job_history_id, r.processed, r.succeeded, r.failed)
       /\ run' = [run EXCEPT ![p].pc = "timed_out", ![p].last = NoItem]
    /\ UNCHANGED <<store, env, lib, response, runEnd>>

\* except asyncio.TimeoutError of refresh_prices / manual_refresh
JobTimeoutHandler(p) ==
    /\ run[p].pc = "timed_out"
    /\ ledger' = MarkRunningJobsAsFailed(p, ledger, TimeoutMessage(p))
    /\ runEnd' = [runEnd EXCEPT ![run[p].job_history_id] =
                     Returned("timeout", run[p].processed, run[p].succeeded, run[p].failed)]
    /\ run' = [run EXCEPT ![p] = IdleRun]
    /\ UNCHANGED <<store, env, lib, response>>

\* time passes
Tick ==
    /\ clock < MaxClock
    /\ clock' = clock + 1
    /\ UNCHANGED <<ledger, run, store, api, site, lib, response, runEnd>>

\* ------------------------------------------------------------- select_card
FirstLink(K, product_id) ==
    LET found == {c \in DOMAIN K : K[c].pc_product_id = product_id} IN
    IF found = {} THEN 0 ELSE CHOOSE c \in found : \A d \in found : c <= d

NextCardId(C) == IF DOMAIN C = {} THEN 1 ELSE (CHOOSE c \in DOMAIN C : \A d \in DOMAIN C : d <= c) + 1

\* POST /api/select-card: a search result is chosen and added to the collection.
\* The handler is taken as one step.
SelectCard(product_id, name, scrape_result, api_available, api_card_data) ==
    LET existing_link == FirstLink(links, product_id)
        is_new == existing_link = 0
        id == IF is_new THEN NextCardId(cards) ELSE existing_link
        card0 == IF is_new THEN [NewCard(name) EXCEPT !.tcg_id = TcgId(product_id)]
                 ELSE cards[id]
        link0 == IF is_new THEN NewLink(product_id) ELSE links[id]
        scraped == scrape_result # NoResult
        link1 == IF scraped /\ scrape_result.final_url # OffersUrl
                 THEN [link0 EXCEPT !.pc_game_url = scrape_result.final_url]
                 ELSE link0
        extracted_data == ExtractCardData(api_card_data, clock)
        matched == api_available /\ api_card_data # NoMatch /\ ~IsEmptyDict(extracted_data)
        card1 == IF matched THEN ApplySelectMetadata(card0, extracted_data, clock) ELSE card0
        qty == IF id \in DOMAIN collection THEN collection[id] ELSE 0
    IN /\ id \in CardIds
       /\ qty < MaxQty
       /\ cards' = (id :> card1) @@ cards
       /\ links' = (id :> link1) @@ links
       /\ snapshots' = IF scraped /\ scrape_result.pricing_data # None
                       THEN Append(snapshots, [card_id |-> id, as_of_date |-> clock,
                                               source |-> "pricecharting"])
                       ELSE snapshots
       /\ collection' = (id :> (qty + 1)) @@ collection
       /\ UNCHANGED <<ledger, run, env, lib, response, runEnd>>

\* --------------------------------------------- collection routes, interleaved
\* The two routes that add a card are coroutines on one event loop, each with
\* its own Session(engine), that is its own SQLite connection: a request reads
\* what is committed (and what it wrote itself), its first INSERT or UPDATE
\* opens the one write transaction the database allows, and commit or rollback
\* closes it.  Requests interleave at their awaits.

\* pc_url of a search result: "/offers?product=<n>" or ".../game/<set>/<n>"
PcUrl(kind, n) == <<kind, n>>
PcUrls == {PcUrl(kind, n) : kind \in {"/offers?product=", "/game/pokemon-base/"}, n \in ProductIds}

\* re.search(r'product=(\d+)', pc_url), else pc_url.split("/")[-1]; 0 is None
ExtractProductId(pc_url) == IF pc_url = <<>> THEN 0 ELSE pc_url[2]

\* another connection holds the write transaction: after the busy timeout the
\* statement fails with "database is locked"
WriteLocked(r) == \E q \in Requests \ {r} : inflight[q].pc = "flushed"

\* the unique index on Card.tcg_id rejects the INSERT
TcgIdTakenNever(C, tcg_id) == FALSE

TcgIdTaken(C, tcg_id) == \E c \in DOMAIN C : C[c].tcg_id = tcg_id

\* session.add(card); session.flush() can be carried out
CanInsertCard(r, product_id) ==
    ~WriteLocked(r) /\ ~TcgIdTaken(cards, TcgId(product_id))

\* the request ends with an HTTPException; the session is closed, which rolls
\* back whatever it wrote
Fails(r, route, status) ==
    /\ inflight' = [inflight EXCEPT ![r] = IdleRequest(route, 0, status)]
    /\ UNCHANGED store

\* the check of the collection entry, the increment or the new entry, and
\* session.commit(), with the card, link and snapshot the request wrote
Commit(r, id, card, link, snapshot) ==
    LET qty == IF id \in DOMAIN collection THEN collection[id] ELSE 0 IN
    /\ qty < MaxQty
    /\ cards' = (id :> card) @@ cards
    /\ links' = (id :> link) @@ links
    /\ snapshots' = snapshots \o snapshot
    /\ collection' = (id :> (qty + 1)) @@ collection
    /\ inflight' = [inflight EXCEPT ![r] =
           IdleRequest(inflight[r].route, inflight[r].existing_link, 200)]

\* POST /api/select-card up to its first await after the form was read: the
\* link is looked up and, if there is none, the card is inserted and flushed
SelectCardBegins(r, pc_url, name) ==
    LET pc_product_id == ExtractProductId(pc_url)
        existing_link == FirstLink(links, pc_product_id)
        request == [pc |-> "awaiting", route |-> "select_card", pc_url |-> pc_url,
                    pc_product_id |-> pc_product_id, name |-> name,
                    existing_link |-> existing_link, card_id |-> existing_link,
                    status |-> 0]
    IN /\ inflight[r].pc = "idle"
       /\ IF pc_url = <<>> \/ name = "" \/ pc_product_id = 0
          THEN Fails(r, "select_card", 400)
          ELSE IF existing_link # 0
          THEN /\ inflight' = [inflight EXCEPT ![r] = request]
               /\ UNCHANGED store
          ELSE IF CanInsertCard(r, pc_product_id)
          THEN /\ NextCardId(cards) \in CardIds
               /\ inflight' = [inflight EXCEPT ![r] =
                      [request EXCEPT !.pc = "flushed", !.card_id = NextCardId(cards)]]
               /\ UNCHANGED store
          ELSE Fails(r, "select_card", 500)
       /\ UNCHANGED <<ledger, run, env, matcher, gate, scraper, text, response, runEnd>>

\* POST /api/select-card from the return of the scrape to the response
SelectCardFinishes(r, scrape_result, api_available, api_card_data) ==
    LET request == inflight[r]
        id == request.card_id
        is_new == request.existing_link = 0
        card0 == IF is_new THEN [NewCard(request.name) EXCEPT !.tcg_id = TcgId(request.pc_product_id)]
                 ELSE cards[id]
        link0 == IF is_new THEN NewLink(request.pc_product_id) ELSE links[id]
        scraped == scrape_result # NoResult
        link1 == IF scraped /\ scrape_result.final_url # request.pc_url[1]
                 THEN [link0 EXCEPT !.pc_game_url = scrape_result.final_url]
                 ELSE link0
        extracted_data == ExtractCardData(api_card_data, clock)
        matched == api_available /\ api_card_data # NoMatch /\ ~IsEmptyDict(extracted_data)
        card1 == IF matched THEN ApplySelectMetadata(card0, extracted_data, clock) ELSE card0
        snapshot == IF scraped /\ scrape_result.pricing_data # None
                    THEN <<[card_id |-> id, as_of_date |-> clock, source |-> "pricecharting"]>>
                    ELSE <<>>
    IN /\ request.route = "select_card"
       /\ request.pc \in {"awaiting", "flushed"}
       /\ IF WriteLocked(r)
          THEN Fails(r, "select_card", 500)
          ELSE Commit(r, id, card1, link1, snapshot)
       /\ UNCHANGED <<ledger, run, env, matcher, gate, scraper, text, response, runEnd>>

\* POST /api/collection up to `await request.form()`: the link is looked up
AddToCollectionBegins(r, pc_product_id, name) ==
    LET existing_link == FirstLink(links, pc_product_id) IN
    /\ inflight[r].pc = "idle"
    /\ IF pc_product_id = 0
       THEN Fails(r, "add_to_collection", 400)
       ELSE /\ inflight' = [inflight EXCEPT ![r] =
                   [pc |-> "awaiting", route |-> "add_to_collection", pc_url |-> <<>>,
                    pc_product_id |-> pc_product_id, name |-> name,
                    existing_link |-> existing_link, card_id |-> existing_link,
                    status |-> 0]]
            /\ UNCHANGED store
    /\ UNCHANGED <<ledger, run, env, matcher, gate, scraper, text, response, runEnd>>

\* POST /api/collection from the form to the response
AddToCollectionFinishes(r, priced) ==
    LET request == inflight[r]
        is_new == request.existing_link = 0
        id == IF is_new THEN NextCardId(cards) ELSE request.card_id
        card == IF is_new THEN [NewCard(request.name) EXCEPT !.tcg_id = TcgId(request.pc_product_id)]
                ELSE cards[id]
        link == IF is_new THEN NewLink(request.pc_product_id) ELSE links[id]
        snapshot == IF priced
                    THEN <<[card_id |-> id, as_of_date |-> clock, source |-> "pricecharting"]>>
                    ELSE <<>>
    IN /\ request.route = "add_to_collection"
       /\ request.pc = "awaiting"
       /\ IF is_new /\ request.name = ""
          THEN Fails(r, "add_to_collection", 400)
          ELSE IF WriteLocked(r) \/ (is_new /\ ~CanInsertCard(r, request.pc_product_id))
          THEN Fails(r, "add_to_collection", 500)
          ELSE /\ id \in CardIds
               /\ Commit(r, id, card, link, snapshot)
       /\ UNCHANGED <<ledger, run, env, matcher, gate, scraper, text, response, runEnd>>

\* ------------------------------------------------------------------ text
\* A string is a sequence of one-character strings.
LowerCase == {"a", "b", "c", "d", "e", "f", "g", "h", "i", "j", "k", "l", "m",
              "n", "o", "p", "q", "r", "s", "t", "u", "v", "w", "x", "y", "z"}
UpperCase == {"A", "B", "C", "D", "E", "F", "G", "H", "I", "J", "K", "L", "M",
              "N", "O", "P", "Q", "R", "S", "T", "U", "V", "W", "X", "Y", "Z"}
Digits == {"0", "1", "2", "3", "4", "5", "6", "7", "8", "9"}
Alnum == LowerCase \cup UpperCase \cup Digits

\* str.lower() on one character
Lower(ch) ==
    CASE ch = "A" -> "a" [] ch = "B" -> "b" [] ch = "C" -> "c" [] ch = "D" -> "d"
      [] ch = "E" -> "e" [] ch = "F" -> "f" [] ch = "G" -> "g" [] ch = "H" -> "h"
      [] ch = "I" -> "i" [] ch = "J" -> "j" [] ch = "K" -> "k" [] ch = "L" -> "l"
      [] ch = "M" -> "m" [] ch = "N" -> "n" [] ch = "O" -> "o" [] ch = "P" -> "p"
      [] ch = "Q" -> "q" [] ch = "R" -> "r" [] ch = "S" -> "s" [] ch = "T" -> "t"
      [] ch = "U" -> "u" [] ch = "V" -> "v" [] ch = "W" -> "w" [] ch = "X" -> "x"
      [] ch = "Y" -> "y" [] ch = "Z" -> "z" [] OTHER -> ch

LowerStr(str) == [i \in DOMAIN str |-> Lower(str[i])]

IsAlnum(ch) == ch \in Alnum

\* `sub in str`
Contains(sub, str) ==
    \E i \in 0 .. (Len(str) - Len(sub)) : SubSeq(str, i + 1, i + Len(sub)) = sub

\* all strings over `alphabet` of length at most n
StringsUpTo(alphabet, n) == UNION {[1 .. k -> alphabet] : k \in 0 .. n}

\* ----------------------------------------------------------------- matcher
MaxCandidates == 2    \* search results handed to _find_best_match

\* normalize(s) of _find_best_match: re.sub(r'[^a-zA-Z0-9]', '', s.lower())
Normalize(str) == SelectSeq(LowerStr(str), IsAlnum)

NameScore(card, target_name) ==
    IF Normalize(card.name) = Normalize(target_name) THEN 100
    ELSE IF Contains(Normalize(target_name), Normalize(card.name)) THEN 50
    ELSE 0

SetScore(card, target_set) ==
    IF Normalize(card.set) = Normalize(target_set) THEN 30
    ELSE IF Contains(Normalize(target_set), Normalize(card.set)) THEN 15
    ELSE 0

NumberScore(card, target_number) ==
    IF Normalize(card.localId) = Normalize(target_number) THEN 20 ELSE 0

CompletenessScore(card) ==
    (IF card.hp THEN 5 ELSE 0) + (IF card.types THEN 5 ELSE 0)
        + (IF card.attacks THEN 5 ELSE 0)

Score(card, target) ==
    NameScore(card, target.name) + SetScore(card, target.set)
        + NumberScore(card, target.number) + CompletenessScore(card)

MatchThreshold == 50

\* the for loop of _find_best_match over cards[1..n]: the best index so far
\* (0: none), replaced only by a strictly greater score
RECURSIVE BestIndex(_, _, _)
BestIndex(candidates, target, n) ==
    IF n = 0 THEN 0
    ELSE LET best == BestIndex(candidates, target, n - 1)
             best_score == IF best = 0 THEN 0 - 1 ELSE Score(candidates[best], target)
         IN IF Score(candidates[n], target) > best_score THEN n ELSE best

\* _find_best_match: <<card>> for a returned card, <<>> for None
FindBestMatch(candidates, target) ==
    LET best == BestIndex(candidates, target, Len(candidates)) IN
    IF candidates = <<>> THEN <<>>
    ELSE IF Score(candidates[best], target) >= MatchThreshold THEN <<candidates[best]>>
    ELSE <<>>

\* search results: name, set name and localId as the API gives them; hp, types
\* and attacks stand for the truthiness of those fields
CandidateNames == {<<"a">>, <<"A", "-">>, <<"a", "b">>, <<"b">>}
CandidateSets == {<<"s">>, <<"s", "t">>, <<"t">>}
CandidateNumbers == {<<"1">>, <<"2">>}
Candidates ==
    {[name |-> n, set |-> st, localId |-> num, hp |-> full, types |-> full, attacks |-> full] :
        n \in CandidateNames, st \in CandidateSets, num \in CandidateNumbers, full \in BOOLEAN}
Targets == [name : {<<"a">>, <<"b">>}, set : {<<"s">>}, number : {<<"1">>, <<"0", "1">>}]

CandidateLists == UNION {[1 .. k -> Candidates] : k \in 0 .. MaxCandidates}

\* one call of _find_best_match; the matcher keeps no state between calls,
\* so a behaviour holds one call
FindBestMatchCall(candidates, target) ==
    /\ matcher.fn = "none"
    /\ matcher' = [fn |-> "find_best_match", cards |-> candidates, target |-> target,
                   result |-> FindBestMatch(candidates, target)]
    /\ UNCHANGED <<ledger, run, store, env, gate, scraper, text, inflight, response, runEnd>>

\* ------------------------------------------------------- candidate search
\* params of search_cards: a filter is sent only for a truthy argument
Param(value) == IF value = None \/ value = <<>> THEN Absent ELSE value

SearchParams(name, set_name, number) ==
    [name |-> Param(name), set_name |-> Param(set_name), localId |-> Param(number)]

\* the search_cards call that search_and_find_best_match makes after `issued`
\* earlier ones
SearchQuery(target, issued) ==
    CASE issued = 0 -> SearchParams(target.name, target.set, target.number)
      [] issued = 1 -> SearchParams(target.name, None, target.number)
      [] issued = 2 -> SearchParams(target.name, None, None)

\* a variant that always makes all three searches
SearchEndsAfterThree(found, issued) == issued = 3

\* `if not cards:` fails, or no fallback is left
SearchEnds(found, issued) == found # <<>> \/ issued = 3

\* what search_cards returns: [] for no hit, an error status or an exception
SearchAnswers ==
    {<<>>} \cup {<<c>> : c \in Candidates}
        \cup {<<c, d>> : c, d \in {e \in Candidates : e.hp /\ e.set = <<"s">>}}

\* search_and_find_best_match up to its first await of search_cards
SearchAndFindBestMatchCall(target) ==
    /\ matcher.fn = "none"
    /\ matcher' = [fn |-> "search_and_find_best_match", pc |-> "search",
                   target |-> target, queries |-> <<SearchQuery(target, 0)>>,
                   answers |-> <<>>, result |-> <<>>]
    /\ UNCHANGED <<ledger, run, store, env, gate, scraper, text, inflight, response, runEnd>>

\* search_cards returns `cards`: the next fallback, or _find_best_match
SearchCardsReturns(found) ==
    /\ matcher.fn = "search_and_find_best_match"
    /\ matcher.pc = "search"
    /\ LET issued == Len(matcher.queries)
           m == [matcher EXCEPT !.answers = Append(@, found)]
       IN matcher' =
           IF SearchEnds(found, issued)
           THEN [m EXCEPT !.pc = "done", !.result = FindBestMatch(found, matcher.target)]
           ELSE [m EXCEPT !.queries = Append(@, SearchQuery(matcher.target, issued))]
    /\ UNCHANGED <<ledger, run, store, env, gate, scraper, text, inflight, response, runEnd>>

\* -------------------------------------------------------------- fetch gate
MaxGateTime == 6      \* values of the clock the gate reads
MinInterval == 2      \* min_interval = 1.0 / requests_per_sec, in clock units

SleepTimeEager(elapsed) ==
    IF elapsed < MinInterval - 1 THEN MinInterval - 1 - elapsed ELSE 0

\* the argument of asyncio.sleep in _throttle; 0: no sleep
SleepTime(elapsed) ==
    IF elapsed < MinInterval THEN MinInterval - elapsed ELSE 0

\* self.last_request_time = time.time(), and the call returns
GateReturn(g) ==
    [g EXCEPT !.pc = "idle", !.last_request_time = g.now,
              !.prev_return = g.returned_at, !.returned_at = g.now]

\* a caller enters _throttle; callers are sequential, so the gate is idle
Throttle ==
    /\ gate.pc = "idle"
    /\ LET elapsed == gate.now - gate.last_request_time
           g == [gate EXCEPT !.called_at = gate.now, !.elapsed = elapsed,
                             !.slept = SleepTime(elapsed) > 0]
       IN gate' = IF SleepTime(elapsed) > 0
                  THEN [g EXCEPT !.pc = "sleeping", !.wake = gate.now + SleepTime(elapsed)]
                  ELSE GateReturn(g)
    /\ UNCHANGED <<ledger, run, store, env, matcher, scraper, text, inflight, response, runEnd>>

\* asyncio.sleep returns, no earlier than asked
ThrottleWakes ==
    /\ gate.pc = "sleeping"
    /\ gate.now >= gate.wake
    /\ gate' = GateReturn(gate)
    /\ UNCHANGED <<ledger, run, store, env, matcher, scraper, text, inflight, response, runEnd>>

\* one of several coroutines enters _throttle while others may be asleep in it
ConcurrentThrottle(r) ==
    /\ gate.callers[r].pc = "idle"
    /\ LET elapsed == gate.now - gate.last_request_time IN
       gate' = IF SleepTime(elapsed) > 0
               THEN [gate EXCEPT !.callers[r] =
                        [pc |-> "sleeping", wake |-> gate.now + SleepTime(elapsed)]]
               ELSE GateReturn(gate)
    /\ UNCHANGED <<ledger, run, store, env, matcher, scraper, text, inflight, response, runEnd>>

\* the asyncio.sleep of one coroutine returns; it stamps the gate and returns
ConcurrentThrottleWakes(r) ==
    /\ gate.callers[r].pc = "sleeping"
    /\ gate.now >= gate.callers[r].wake
    /\ gate' = [GateReturn(gate) EXCEPT !.callers[r] = [pc |-> "idle", wake |-> 0]]
    /\ UNCHANGED <<ledger, run, store, env, matcher, scraper, text, inflight, response, runEnd>>

\* the clock the gate reads advances
GateTick ==
    /\ gate.now < MaxGateTime
    /\ gate' = [gate EXCEPT !.now = @ + 1]
    /\ UNCHANGED <<ledger, run, store, env, matcher, scraper, text, inflight, response, runEnd>>

\* ------------------------------------------------------- product scraper
MaxFetches == 3       \* page fetches within one call from outside
MaxScrapeTime == 2    \* values of time.time(), in hours
CacheTtl == 1         \* self._cache_ttl = 3600 seconds, in hours

\* URLs a caller passes or a page links to
ProductUrls == {"/offers?product=1", "/game/pokemon-base/alpha"}
\* "/offers?product=" in url
IsOffersUrl(url) == url = "/offers?product=1"

HttpError == [status |-> "error", link |-> None, prices |-> None]
\* a fetched page: the href _extract_pricing_page_url finds in it (None: no
\* such link) and what _parse_prices_from_html finds in it
Pages ==
    {HttpError} \cup [status : {"ok"}, link : ProductUrls \cup {None}, prices : {"prices", None}]

\* _is_cache_valid
IsCacheValid(cache_entry, now) == now - cache_entry.timestamp < CacheTtl

\* return data: the call from outside ends
ScrapeReturn(sc, data) ==
    [sc EXCEPT !.pc = "idle", !.result = data,
               !.done = IF data # NoResult
                        THEN (sc.requested :> [result |-> data, at |-> sc.now]) @@ @
                        ELSE @]

\* scrape_product_page_with_url(url) up to its fetch: the cache check
ScrapeEnter(sc, url) ==
    IF url \in DOMAIN sc.cache /\ IsCacheValid(sc.cache[url], sc.now)
    THEN ScrapeReturn(sc, sc.cache[url].data)
    ELSE [sc EXCEPT !.pc = "fetch", !.url = url]

\* a caller calls scrape_product_page_with_url(url)
ScrapeCall(url) ==
    /\ scraper.pc = "idle"
    /\ scraper' = ScrapeEnter(
           [scraper EXCEPT !.requested = url, !.called_at = scraper.now, !.fetches = 0,
                           !.prior = IF url \in DOMAIN scraper.done
                                     THEN <<scraper.done[url]>> ELSE <<>>],
           url)
    /\ UNCHANGED <<ledger, run, store, env, matcher, gate, text, inflight, response, runEnd>>

\* client.get(url) returns
FetchReturns(page) ==
    /\ scraper.pc = "fetch"
    /\ scraper.fetches < MaxFetches
    /\ LET sc == [scraper EXCEPT !.fetches = @ + 1]
           result == [pricing_data |-> page.prices, final_url |-> sc.url]
       IN scraper' =
            IF page = HttpError THEN ScrapeReturn(sc, NoResult)
            ELSE IF IsOffersUrl(sc.url) /\ page.link # None
            THEN ScrapeEnter(sc, page.link)
            ELSE ScrapeReturn(
                     [sc EXCEPT !.cache = (sc.url :> [data |-> result, timestamp |-> sc.now]) @@ @],
                     result)
    /\ UNCHANGED <<ledger, run, store, env, matcher, gate, text, inflight, response, runEnd>>

\* time.time() advances
ScraperTick ==
    /\ scraper.now < MaxScrapeTime
    /\ scraper' = [scraper EXCEPT !.now = @ + 1]
    /\ UNCHANGED <<ledger, run, store, env, matcher, gate, text, inflight, response, runEnd>>

\* ----------------------------------------------------------- query parser
MaxQueryLen == 4      \* characters of a search query

Whitespace == {" ", "\t", "\n"}
IsSpace(ch) == ch \in Whitespace
IsDigit(ch) == ch \in Digits
\* \w
IsWordChar(ch) == ch \in Alnum \cup {"_"}

\* str.strip()
Strip(str) ==
    LET kept == {i \in DOMAIN str : ~IsSpace(str[i])} IN
    IF kept = {} THEN <<>>
    ELSE SubSeq(str, CHOOSE i \in kept : \A j \in kept : i <= j,
                     CHOOSE i \in kept : \A j \in kept : j <= i)

\* str.isdigit()
IsDigitStr(str) == str # <<>> /\ \A i \in DOMAIN str : IsDigit(str[i])

\* str.split()
RECURSIVE Split(_)
Split(str) ==
    LET s == Strip(str)
        gaps == {i \in DOMAIN s : IsSpace(s[i])}
    IN IF s = <<>> THEN <<>>
       ELSE IF gaps = {} THEN <<s>>
       ELSE LET g == CHOOSE i \in gaps : \A j \in gaps : i <= j
            IN <<SubSeq(s, 1, g - 1)>> \o Split(SubSeq(s, g + 1, Len(s)))

\* " ".join(tokens)
RECURSIVE Join(_)
Join(tokens) ==
    IF tokens = <<>> THEN <<>>
    ELSE IF Len(tokens) = 1 THEN tokens[1]
    ELSE tokens[1] \o <<" ">> \o Join(Tail(tokens))

\* list.remove(word): the first occurrence is removed
RemoveFirst(words, word) ==
    LET at == CHOOSE i \in DOMAIN words : words[i] = word /\ \A j \in 1 .. (i - 1) : words[j] # word
    IN SubSeq(words, 1, at - 1) \o SubSeq(words, at + 1, Len(words))

\* the literal `lit` stands in str at position i
LiteralAt(str, i, lit) ==
    i + Len(lit) - 1 <= Len(str) /\ SubSeq(str, i, i + Len(lit) - 1) = lit

\* n digits stand in str at position i
DigitsAt(str, i, n) ==
    i + n - 1 <= Len(str) /\ \A k \in i .. (i + n - 1) : IsDigit(str[k])

\* \b between the characters i - 1 and i
WordBoundary(str, i) ==
    (i > 1 /\ i - 1 <= Len(str) /\ IsWordChar(str[i - 1]))
        # (i >= 1 /\ i <= Len(str) /\ IsWordChar(str[i]))

\* (?!\w) before the character i
NotWordAt(str, i) == i > Len(str) \/ ~IsWordChar(str[i])

\* NUMBER_PATTERN = (?P<num>\d{1,3})(?:/(?P<of>\d{1,3}))?(?!\w), the ways it
\* is tried at one position, in the order of the backtracking: the number of
\* digits of `num`, then of `of` (0: without the group)
NumberTries ==
    <<<<3, 3>>, <<3, 2>>, <<3, 1>>, <<3, 0>>,
      <<2, 3>>, <<2, 2>>, <<2, 1>>, <<2, 0>>,
      <<1, 3>>, <<1, 2>>, <<1, 1>>, <<1, 0>>>>

NumberTryMatches(str, i, try) ==
    /\ DigitsAt(str, i, try[1])
    /\ IF try[2] = 0 THEN NotWordAt(str, i + try[1])
       ELSE /\ i + try[1] <= Len(str)
            /\ str[i + try[1]] = "/"
            /\ DigitsAt(str, i + try[1] + 1, try[2])
            /\ NotWordAt(str, i + try[1] + 1 + try[2])

\* the match of NUMBER_PATTERN at position i: <<length of num, length>>, or <<0, 0>>
NumberMatchAt(str, i) ==
    LET ok == {k \in DOMAIN NumberTries : NumberTryMatches(str, i, NumberTries[k])} IN
    IF ok = {} THEN <<0, 0>>
    ELSE LET try == NumberTries[CHOOSE k \in ok : \A l \in ok : k <= l]
         IN <<try[1], try[1] + (IF try[2] = 0 THEN 0 ELSE 1 + try[2])>>

\* NUMBER_PATTERN.search(query).group('num'); <<>> is None
NumberSearch(str) ==
    LET at == {i \in DOMAIN str : NumberMatchAt(str, i)[2] > 0} IN
    IF at = {} THEN <<>>
    ELSE LET i == CHOOSE i \in at : \A j \in at : i <= j
         IN SubSeq(str, i, i + NumberMatchAt(str, i)[1] - 1)

\* NUMBER_PATTERN.sub('', query) from position i on
RECURSIVE NumberSub(_, _)
NumberSub(str, i) ==
    IF i > Len(str) THEN <<>>
    ELSE LET len == NumberMatchAt(str, i)[2] IN
         IF len > 0 THEN NumberSub(str, i + len)
         ELSE <<str[i]>> \o NumberSub(str, i + 1)

\* STANDALONE_NUMBER_PATTERN.match(word): \b\d{1,3}\b at the start of word
StandaloneMatch(word) ==
    /\ WordBoundary(word, 1)
    /\ \E n \in 1 .. 3 : DigitsAt(word, 1, n) /\ WordBoundary(word, n + 1)

\* FLAGS_PATTERN, the literals of its alternatives in the order they are
\* tried; full\s*art is FullArtAt
FlagLiterals ==
    <<<<"g", "x">>, <<"e", "x">>, <<"v", "m", "a", "x">>, <<"v", "-", "s", "t", "a", "r">>, <<"v", " ", "s", "t", "a", "r">>, <<"v", "s", "t", "a", "r">>, <<"v">>,
      <<>>,
      <<"r", "e", "v", "e", "r", "s", "e">>, <<"h", "o", "l", "o">>, <<"s", "h", "a", "d", "o", "w", "l", "e", "s", "s">>>>

\* full\s*art at position i: the position after it, or 0
FullArtAt(str, i) ==
    LET full == <<"f", "u", "l", "l">>
        art == <<"a", "r", "t">>
        ends == {e \in (i + 7) .. (Len(str) + 1) :
                    /\ LiteralAt(str, i, full)
                    /\ LiteralAt(str, e - 3, art)
                    /\ \A k \in (i + 4) .. (e - 4) : IsSpace(str[k])}
    IN IF ends = {} THEN 0 ELSE CHOOSE e \in ends : TRUE

\* the position after alternative k matched at position i, or 0
FlagAlternativeAt(str, i, k) ==
    IF FlagLiterals[k] = <<>> THEN FullArtAt(str, i)
    ELSE IF LiteralAt(str, i, FlagLiterals[k]) THEN i + Len(FlagLiterals[k])
    ELSE 0

\* the position after the match of FLAGS_PATTERN at position i, or 0
FlagMatchAt(str, i) ==
    LET ok == {k \in DOMAIN FlagLiterals :
                  /\ WordBoundary(str, i)
                  /\ FlagAlternativeAt(str, i, k) > 0
                  /\ WordBoundary(str, FlagAlternativeAt(str, i, k))}
    IN IF ok = {} THEN 0
       ELSE FlagAlternativeAt(str, i, CHOOSE k \in ok : \A l \in ok : k <= l)

\* flag.lower().replace(' ', '').replace('-', '') and the name it is added under
NormalizeFlag(match) ==
    LET flag == SelectSeq(LowerStr(match), LAMBDA ch : ch \notin {" ", "-"}) IN
    IF flag = <<"v">> THEN <<"v">>
    ELSE IF Contains(<<"v", "s", "t", "a", "r">>, flag) THEN <<"v", "s", "t", "a", "r">>
    ELSE IF Contains(<<"f", "u", "l", "l", "a", "r", "t">>, flag) THEN <<"f", "u", "l", "l", "a", "r", "t">>
    ELSE flag

\* the flags of FLAGS_PATTERN.findall(query) from position i on
RECURSIVE FlagsFindAll(_, _)
FlagsFindAll(str, i) ==
    IF i > Len(str) THEN {}
    ELSE LET e == FlagMatchAt(str, i) IN
         IF e > 0 THEN {NormalizeFlag(SubSeq(str, i, e - 1))} \cup FlagsFindAll(str, e)
         ELSE FlagsFindAll(str, i + 1)

\* FLAGS_PATTERN.sub('', query) from position i on
RECURSIVE FlagsSub(_, _)
FlagsSub(str, i) ==
    IF i > Len(str) THEN <<>>
    ELSE LET e == FlagMatchAt(str, i) IN
         IF e > 0 THEN FlagsSub(str, e)
         ELSE <<str[i]>> \o FlagsSub(str, i + 1)

SET_HINTS ==
    {<<"1", "5", "1">>,
     <<"2", "5", "t", "h">>,
     <<"a", "n", "n", "i", "v", "e", "r", "s", "a", "r", "y">>,
     <<"a", "q", "u", "a", "p", "o", "l", "i", "s">>,
     <<"a", "s", "t", "r", "a", "l">>,
     <<"b", "a", "s", "e">>,
     <<"b", "l", "a", "c", "k">>,
     <<"b", "r", "i", "l", "l", "i", "a", "n", "t">>,
     <<"b", "w">>,
     <<"c", "e", "l", "e", "b", "r", "a", "t", "i", "o", "n", "s">>,
     <<"c", "r", "i", "m", "s", "o", "n">>,
     <<"c", "r", "o", "w", "n">>,
     <<"d", "e", "s", "t", "i", "n", "y">>,
     <<"d", "i", "a", "m", "o", "n", "d">>,
     <<"d", "i", "s", "c", "o", "v", "e", "r", "y">>,
     <<"d", "p">>,
     <<"e">>,
     <<"e", "m", "e", "r", "a", "l", "d">>,
     <<"e", "v", "o", "l", "u", "t", "i", "o", "n", "s">>,
     <<"e", "v", "o", "l", "v", "e", "d">>,
     <<"e", "x">>,
     <<"e", "x", "p", "e", "d", "i", "t", "i", "o", "n">>,
     <<"f", "a", "t", "e", "s">>,
     <<"f", "o", "s", "s", "i", "l">>,
     <<"g", "e", "n", "e", "r", "a", "t", "i", "o", "n", "s">>,
     <<"g", "e", "n", "e", "s", "i", "s">>,
     <<"g", "y", "m">>,
     <<"h", "e", "a", "r", "t", "g", "o", "l", "d">>,
     <<"h", "i", "d", "d", "e", "n">>,
     <<"i", "n", "v", "a", "s", "i", "o", "n">>,
     <<"j", "u", "n", "g", "l", "e">>,
     <<"l", "e", "g", "e", "n", "d", "s">>,
     <<"l", "o", "s", "t">>,
     <<"m", "o", "o", "n">>,
     <<"n", "e", "o">>,
     <<"o", "r", "i", "g", "i", "n">>,
     <<"p", "a", "l", "d", "e", "a">>,
     <<"p", "a", "r", "a", "d", "i", "g", "m">>,
     <<"p", "e", "a", "r", "l">>,
     <<"p", "l", "a", "t", "i", "n", "u", "m">>,
     <<"r", "a", "d", "i", "a", "n", "c", "e">>,
     <<"r", "e", "v", "e", "l", "a", "t", "i", "o", "n">>,
     <<"r", "o", "c", "k", "e", "t">>,
     <<"r", "u", "b", "y">>,
     <<"s", "a", "p", "p", "h", "i", "r", "e">>,
     <<"s", "c", "a", "r", "l", "e", "t">>,
     <<"s", "h", "i", "e", "l", "d">>,
     <<"s", "h", "i", "n", "i", "n", "g">>,
     <<"s", "i", "l", "v", "e", "r">>,
     <<"s", "k", "y", "r", "i", "d", "g", "e">>,
     <<"s", "m">>,
     <<"s", "o", "u", "l", "s", "i", "l", "v", "e", "r">>,
     <<"s", "u", "n">>,
     <<"s", "v">>,
     <<"s", "w", "o", "r", "d">>,
     <<"t", "e", "m", "p", "e", "s", "t">>,
     <<"t", "r", "i", "g", "g", "e", "r">>,
     <<"v", "i", "o", "l", "e", "t">>,
     <<"w", "h", "i", "t", "e">>,
     <<"x", "y">>,
     <<"z", "e", "n", "i", "t", "h">>}

\* the loop over query_words[:] from its k-th word on
RECURSIVE ProcessWords(_, _, _, _, _, _)
ProcessWords(copy, k, query_words, number, flags, hints) ==
    IF k > Len(copy) THEN [name_tokens |-> query_words, number |-> number,
                           flags |-> flags, hints |-> hints]
    ELSE LET word == copy[k] IN
         IF word \in SET_HINTS
         THEN IF IsDigitStr(word) /\ number = <<>> /\ flags # {}
              THEN ProcessWords(copy, k + 1, RemoveFirst(query_words, word), word, flags, hints)
              ELSE ProcessWords(copy, k + 1, RemoveFirst(query_words, word), number, flags,
                                Append(hints, word))
         ELSE IF IsDigitStr(word) /\ number = <<>> /\ flags # {} /\ StandaloneMatch(word)
         THEN ProcessWords(copy, k + 1, RemoveFirst(query_words, word), word, flags, hints)
         ELSE ProcessWords(copy, k + 1, query_words, number, flags, hints)

\* QueryParser.parse.  The number None is <<>>.
Parse(q) ==
    LET query0 == LowerStr(Strip(q))
        number == NumberSearch(query0)
        query1 == IF number # <<>> THEN Strip(NumberSub(query0, 1)) ELSE query0
        flags == FlagsFindAll(query1, 1)
        query2 == Strip(FlagsSub(query1, 1))
        query_words == Split(query2)
        parsed == ProcessWords(query_words, 1, query_words, number, flags, <<>>)
    IN [parsed EXCEPT !.name_tokens = SelectSeq(parsed.name_tokens, LAMBDA word : Strip(word) # <<>>)]

Queries == StringsUpTo({"1", "e", "x", "v", " ", "/"}, MaxQueryLen)

ParseCall(query) ==
    /\ text.fn = "none"
    /\ text' = [fn |-> "parse", query |-> query, result |-> Parse(query)]
    /\ UNCHANGED <<ledger, run, store, env, matcher, gate, scraper, inflight, response, runEnd>>

\* ------------------------------------------------------------- price text
MaxTextLen == 5       \* characters of a price text
MantissaBits == 53    \* significant bits of a Python float (IEEE 754 binary64)

DigitValue(ch) ==
    CASE ch = "0" -> 0 [] ch = "1" -> 1 [] ch = "2" -> 2 [] ch = "3" -> 3 [] ch = "4" -> 4
      [] ch = "5" -> 5 [] ch = "6" -> 6 [] ch = "7" -> 7 [] ch = "8" -> 8 [] ch = "9" -> 9

\* int(digits) of a string of decimal digits
RECURSIVE DecimalValue(_)
DecimalValue(digits) ==
    IF digits = <<>> THEN 0
    ELSE 10 * DecimalValue(SubSeq(digits, 1, Len(digits) - 1)) + DigitValue(digits[Len(digits)])

\* the position after \d+ matched greedily from position j
RECURSIVE DigitRunEnd(_, _)
DigitRunEnd(str, j) ==
    IF j <= Len(str) /\ IsDigit(str[j]) THEN DigitRunEnd(str, j + 1) ELSE j

\* the position after (?:,\d{3})* matched greedily from position j
RECURSIVE ThousandsEnd(_, _)
ThousandsEnd(str, j) ==
    IF j <= Len(str) /\ str[j] = "," /\ DigitsAt(str, j + 1, 3)
    THEN ThousandsEnd(str, j + 4)
    ELSE j

\* the position after (?:\.\d{2})? matched from position j
CentsEnd(str, j) ==
    IF j <= Len(str) /\ str[j] = "." /\ DigitsAt(str, j + 1, 2) THEN j + 3 ELSE j

\* re.search(r'\$(\d+(?:,\d{3})*(?:\.\d{2})?)', text).group(1); <<>>: no match
PriceSearch(str) ==
    LET at == {i \in DOMAIN str : str[i] = "$" /\ DigitsAt(str, i + 1, 1)} IN
    IF at = {} THEN <<>>
    ELSE LET i == CHOOSE i \in at : \A j \in at : i <= j
         IN SubSeq(str, i + 1, CentsEnd(str, ThousandsEnd(str, DigitRunEnd(str, i + 1))) - 1)

\* A float is [bits, scale]: the value of the binary numeral `bits` (most
\* significant bit first, at most MantissaBits of them, the first one 1)
\* divided by 2^scale; zero is [bits |-> <<>>, scale |-> 0].

\* the binary numeral of n
RECURSIVE Binary(_)
Binary(n) == IF n = 0 THEN <<>> ELSE Append(Binary(n \div 2), n % 2)

RECURSIVE BinaryValue(_)
BinaryValue(bits) ==
    IF bits = <<>> THEN 0
    ELSE 2 * BinaryValue(SubSeq(bits, 1, Len(bits) - 1)) + bits[Len(bits)]

\* a + b, of two numerals of the same length whose first bits are 0: a carry
\* enters position i when a position after it generates one that every
\* position in between passes on
AddBits(a, b) ==
    LET carry(i) == \E j \in (i + 1) .. Len(a) :
                        /\ a[j] + b[j] = 2
                        /\ \A k \in (i + 1) .. (j - 1) : a[k] + b[k] >= 1
    IN [i \in DOMAIN a |-> (a[i] + b[i] + (IF carry(i) THEN 1 ELSE 0)) % 2]

\* bits + 1
Increment(bits) ==
    LET wide == <<0>> \o bits
        sum == AddBits(wide, [i \in DOMAIN wide |-> IF i = Len(wide) THEN 1 ELSE 0])
    IN IF sum[1] = 1 THEN sum ELSE Tail(sum)

Zeros(n) == [i \in 1 .. n |-> 0]
ShiftLeft(bits, n) == bits \o Zeros(n)
PadTo(bits, n) == Zeros(n - Len(bits)) \o bits

\* round-half-even of the numeral to MantissaBits significant bits, given
\* that `inexact` tells whether bits beyond the numeral were dropped already
RoundToMantissa(bits, scale, inexact) ==
    IF Len(bits) <= MantissaBits THEN [bits |-> bits, scale |-> scale]
    ELSE LET kept == SubSeq(bits, 1, MantissaBits)
             dropped == SubSeq(bits, MantissaBits + 1, Len(bits))
             sticky == inexact \/ \E i \in 2 .. Len(dropped) : dropped[i] = 1
             up == dropped[1] = 1 /\ (sticky \/ kept[MantissaBits] = 1)
             rounded == IF up THEN Increment(kept) ELSE kept
             newscale == scale - Len(dropped)
         IN IF Len(rounded) > MantissaBits
            THEN [bits |-> SubSeq(rounded, 1, MantissaBits), scale |-> newscale - 1]
            ELSE [bits |-> rounded, scale |-> newscale]

\* the binary expansion of num / den by long division, until MantissaBits + 1
\* significant bits are there: <<bits, scale, remainder>>
RECURSIVE Expand(_, _, _, _)
Expand(bits, scale, rem, den) ==
    IF Len(bits) > MantissaBits \/ (rem = 0 /\ bits # <<>>) THEN <<bits, scale, rem>>
    ELSE LET bit == IF 2 * rem >= den THEN 1 ELSE 0
             next == IF bits = <<>> /\ bit = 0 THEN <<>> ELSE Append(bits, bit)
         IN Expand(next, scale + 1, 2 * rem - bit * den, den)

\* float(price_str) of the decimal numeral whose value is num / den: the
\* nearest float
Float(num, den) ==
    IF num = 0 THEN [bits |-> <<>>, scale |-> 0]
    ELSE LET expansion == Expand(Binary(num \div den), 0, num % den, den)
         IN RoundToMantissa(expansion[1], expansion[2], expansion[3] # 0)

\* x * 100 in float arithmetic: the exact product 64 x + 32 x + 4 x, rounded
Times100(x) ==
    IF x.bits = <<>> THEN x
    ELSE LET n == Len(x.bits) + 8
             product == AddBits(PadTo(ShiftLeft(x.bits, 6), n),
                                AddBits(PadTo(ShiftLeft(x.bits, 5), n),
                                        PadTo(ShiftLeft(x.bits, 2), n)))
             first == CHOOSE i \in DOMAIN product :
                          product[i] = 1 /\ \A j \in 1 .. (i - 1) : product[j] = 0
         IN RoundToMantissa(SubSeq(product, first, Len(product)), x.scale, FALSE)

\* int(x): the float truncated towards zero
Truncate(x) ==
    IF x.scale >= Len(x.bits) THEN 0
    ELSE IF x.scale >= 0 THEN BinaryValue(SubSeq(x.bits, 1, Len(x.bits) - x.scale))
    ELSE BinaryValue(ShiftLeft(x.bits, 0 - x.scale))

\* float(price_str) for price_str = digits or digits "." two digits
FloatOfPrice(price_str) ==
    LET dot == {i \in DOMAIN price_str : price_str[i] = "."} IN
    IF dot = {} THEN Float(DecimalValue(price_str), 1)
    ELSE LET i == CHOOSE i \in dot : TRUE
         IN Float(100 * DecimalValue(SubSeq(price_str, 1, i - 1))
                      + DecimalValue(SubSeq(price_str, i + 1, Len(price_str))), 100)

\* PriceChartingScraper._parse_price_text; Null is None
ParsePriceText(price_text) ==
    LET price_match == PriceSearch(price_text) IN
    IF price_match # <<>>
    THEN LET price_str == SelectSeq(price_match, LAMBDA ch : ch # ",")
         IN Truncate(Times100(FloatOfPrice(price_str)))
    ELSE Null

PriceTexts == StringsUpTo({"$", "0", "2", "9", ".", ","}, MaxTextLen)

ParsePriceTextCall(price_text) ==
    /\ text.fn = "none"
    /\ text' = [fn |-> "_parse_price_text", text |-> price_text,
                result |-> ParsePriceText(price_text)]
    /\ UNCHANGED <<ledger, run, store, env, matcher, gate, scraper, inflight, response, runEnd>>

\* --------------------------------------------------------- price extractor
MaxPriceRows == 2     \* price cells of one page

\* the lower-cased text of a table row, as the set of the phrases the
\* extractor looks for that occur in it; in_row tells whether the cell has a
\* parent row at all
SubGrades == {"grade 1", "grade 2", "grade 3", "grade 4", "grade 5", "grade 6", "grade 7"}

RowTexts ==
    {{}, {"ungraded"}, {"ungraded", "grade 7"}, {"ungraded", "grade 2", "psa 9"},
     {"psa 10"}, {"psa 10", "black"}, {"psa 10", "pristine"}, {"psa 10", "psa 9"},
     {"psa 9"}, {"bgs 10"}, {"bgs 10", "black"}}

\* the if/elif chain over row_text; None: grade_type stays None
GradeType(row_text) ==
    IF "ungraded" \in row_text
    THEN IF \A sub \in SubGrades : sub \notin row_text THEN "ungraded_cents" ELSE None
    ELSE IF "psa 10" \in row_text
    THEN IF "black" \notin row_text /\ "pristine" \notin row_text THEN "psa10_cents" ELSE None
    ELSE IF "psa 9" \in row_text
    THEN "psa9_cents"
    ELSE IF "bgs 10" \in row_text
    THEN IF "black" \notin row_text THEN "bgs10_cents" ELSE None
    ELSE None

\* a variant in which a later row replaces the value of its bucket
AddPriceOverwriting(prices, grade_type, price_value) ==
    IF grade_type # None
    THEN (grade_type :> price_value) @@ prices
    ELSE prices

\* if grade_type and grade_type not in prices: prices[grade_type] = price_value
AddPrice(prices, grade_type, price_value) ==
    IF grade_type # None /\ grade_type \notin DOMAIN prices
    THEN (grade_type :> price_value) @@ prices
    ELSE prices

\* the for loop over price_elements[1..n].  price_value is what
\* _parse_price_text gave for the cell: cents, or Null for None
RECURSIVE PricesAfter(_, _)
PricesAfter(price_elements, n) ==
    IF n = 0 THEN <<>>
    ELSE LET prices == PricesAfter(price_elements, n - 1)
             element == price_elements[n]
         IN IF element.price_value = Null \/ element.price_value = 0 THEN prices
            ELSE IF ~element.in_row THEN prices
            ELSE AddPrice(prices, GradeType(element.row_text), element.price_value)

\* result['prices'] of _parse_prices_from_html: is_none for `prices if prices
\* else None`
ParsePricesFromHtml(price_elements) ==
    LET prices == PricesAfter(price_elements, Len(price_elements)) IN
    [prices |-> prices, is_none |-> DOMAIN prices = {}]

PriceElements ==
    [row_text : RowTexts, in_row : {TRUE}, price_value : {Null, 0, 100, 250}]
        \cup [row_text : {{}}, in_row : {FALSE}, price_value : {Null, 0, 100, 250}]
PricePages == UNION {[1 .. k -> PriceElements] : k \in 0 .. MaxPriceRows}

ParsePricesFromHtmlCall(price_elements) ==
    /\ text.fn = "none"
    /\ text' = [fn |-> "_parse_prices_from_html", price_elements |-> price_elements,
                result |-> ParsePricesFromHtml(price_elements)]
    /\ UNCHANGED <<ledger, run, store, env, matcher, gate, scraper, inflight, response, runEnd>>

\* ------------------------------------------------------- URL construction
MaxSlugLen == 2       \* characters of a card name, a set name and a number

BASE_URL == <<"h", "t", "t", "p", "s", ":", "/", "/", "w", "w", "w", ".", "p", "r", "i", "c", "e", "c", "h", "a", "r", "t", "i", "n", "g", ".", "c", "o", "m">>

\* SET_SLUG_MAPPING: <<set name, slug>>
SET_SLUG_MAPPING ==
    {<<<<"b", "a", "s", "e">>,
       <<"b", "a", "s", "e", "-", "s", "e", "t">>>>,
     <<<<"b", "a", "s", "e", " ", "s", "e", "t">>,
       <<"b", "a", "s", "e", "-", "s", "e", "t">>>>,
     <<<<"j", "u", "n", "g", "l", "e">>,
       <<"j", "u", "n", "g", "l", "e">>>>,
     <<<<"f", "o", "s", "s", "i", "l">>,
       <<"f", "o", "s", "s", "i", "l">>>>,
     <<<<"t", "e", "a", "m", " ", "r", "o", "c", "k", "e", "t">>,
       <<"t", "e", "a", "m", "-", "r", "o", "c", "k", "e", "t">>>>,
     <<<<"g", "y", "m", " ", "h", "e", "r", "o", "e", "s">>,
       <<"g", "y", "m", "-", "h", "e", "r", "o", "e", "s">>>>,
     <<<<"g", "y", "m", " ", "c", "h", "a", "l", "l", "e", "n", "g", "e">>,
       <<"g", "y", "m", "-", "c", "h", "a", "l", "l", "e", "n", "g", "e">>>>,
     <<<<"n", "e", "o", " ", "g", "e", "n", "e", "s", "i", "s">>,
       <<"n", "e", "o", "-", "g", "e", "n", "e", "s", "i", "s">>>>,
     <<<<"n", "e", "o", " ", "d", "i", "s", "c", "o", "v", "e", "r", "y">>,
       <<"n", "e", "o", "-", "d", "i", "s", "c", "o", "v", "e", "r", "y">>>>,
     <<<<"n", "e", "o", " ", "d", "e", "s", "t", "i", "n", "y">>,
       <<"n", "e", "o", "-", "d", "e", "s", "t", "i", "n", "y">>>>,
     <<<<"n", "e", "o", " ", "r", "e", "v", "e", "l", "a", "t", "i", "o", "n">>,
       <<"n", "e", "o", "-", "r", "e", "v", "e", "l", "a", "t", "i", "o", "n">>>>,
     <<<<"e", "x", "p", "e", "d", "i", "t", "i", "o", "n", " ", "b", "a", "s", "e", " ", "s", "e", "t">>,
       <<"e", "x", "p", "e", "d", "i", "t", "i", "o", "n">>>>,
     <<<<"a", "q", "u", "a", "p", "o", "l", "i", "s">>,
       <<"a", "q", "u", "a", "p", "o", "l", "i", "s">>>>,
     <<<<"s", "k", "y", "r", "i", "d", "g", "e">>,
       <<"s", "k", "y", "r", "i", "d", "g", "e">>>>,
     <<<<"r", "u", "b", "y", " ", "&", " ", "s", "a", "p", "p", "h", "i", "r", "e">>,
       <<"r", "u", "b", "y", "-", "s", "a", "p", "p", "h", "i", "r", "e">>>>,
     <<<<"s", "a", "n", "d", "s", "t", "o", "r", "m">>,
       <<"s", "a", "n", "d", "s", "t", "o", "r", "m">>>>,
     <<<<"d", "r", "a", "g", "o", "n">>,
       <<"d", "r", "a", "g", "o", "n">>>>,
     <<<<"t", "e", "a", "m", " ", "m", "a", "g", "m", "a", " ", "v", "s", " ", "t", "e", "a", "m", " ", "a", "q", "u", "a">>,
       <<"t", "e", "a", "m", "-", "m", "a", "g", "m", "a", "-", "v", "s", "-", "t", "e", "a", "m", "-", "a", "q", "u", "a">>>>,
     <<<<"h", "i", "d", "d", "e", "n", " ", "l", "e", "g", "e", "n", "d", "s">>,
       <<"h", "i", "d", "d", "e", "n", "-", "l", "e", "g", "e", "n", "d", "s">>>>,
     <<<<"f", "i", "r", "e", "r", "e", "d", " ", "&", " ", "l", "e", "a", "f", "g", "r", "e", "e", "n">>,
       <<"f", "i", "r", "e", "r", "e", "d", "-", "l", "e", "a", "f", "g", "r", "e", "e", "n">>>>,
     <<<<"t", "e", "a", "m", " ", "r", "o", "c", "k", "e", "t", " ", "r", "e", "t", "u", "r", "n", "s">>,
       <<"t", "e", "a", "m", "-", "r", "o", "c", "k", "e", "t", "-", "r", "e", "t", "u", "r", "n", "s">>>>,
     <<<<"d", "e", "o", "x", "y", "s">>,
       <<"d", "e", "o", "x", "y", "s">>>>,
     <<<<"e", "m", "e", "r", "a", "l", "d">>,
       <<"e", "m", "e", "r", "a", "l", "d">>>>,
     <<<<"u", "n", "s", "e", "e", "n", " ", "f", "o", "r", "c", "e", "s">>,
       <<"u", "n", "s", "e", "e", "n", "-", "f", "o", "r", "c", "e", "s">>>>,
     <<<<"d", "e", "l", "t", "a", " ", "s", "p", "e", "c", "i", "e", "s">>,
       <<"d", "e", "l", "t", "a", "-", "s", "p", "e", "c", "i", "e", "s">>>>,
     <<<<"l", "e", "g", "e", "n", "d", " ", "m", "a", "k", "e", "r">>,
       <<"l", "e", "g", "e", "n", "d", "-", "m", "a", "k", "e", "r">>>>,
     <<<<"h", "o", "l", "o", "n", " ", "p", "h", "a", "n", "t", "o", "m", "s">>,
       <<"h", "o", "l", "o", "n", "-", "p", "h", "a", "n", "t", "o", "m", "s">>>>,
     <<<<"c", "r", "y", "s", "t", "a", "l", " ", "g", "u", "a", "r", "d", "i", "a", "n", "s">>,
       <<"c", "r", "y", "s", "t", "a", "l", "-", "g", "u", "a", "r", "d", "i", "a", "n", "s">>>>,
     <<<<"d", "r", "a", "g", "o", "n", " ", "f", "r", "o", "n", "t", "i", "e", "r", "s">>,
       <<"d", "r", "a", "g", "o", "n", "-", "f", "r", "o", "n", "t", "i", "e", "r", "s">>>>,
     <<<<"p", "o", "w", "e", "r", " ", "k", "e", "e", "p", "e", "r", "s">>,
       <<"p", "o", "w", "e", "r", "-", "k", "e", "e", "p", "e", "r", "s">>>>,
     <<<<"d", "i", "a", "m", "o", "n", "d", " ", "&", " ", "p", "e", "a", "r", "l">>,
       <<"d", "i", "a", "m", "o", "n", "d", "-", "p", "e", "a", "r", "l">>>>,
     <<<<"m", "y", "s", "t", "e", "r", "i", "o", "u", "s", " ", "t", "r", "e", "a", "s", "u", "r", "e", "s">>,
       <<"m", "y", "s", "t", "e", "r", "i", "o", "u", "s", "-", "t", "r", "e", "a", "s", "u", "r", "e", "s">>>>,
     <<<<"s", "e", "c", "r", "e", "t", " ", "w", "o", "n", "d", "e", "r", "s">>,
       <<"s", "e", "c", "r", "e", "t", "-", "w", "o", "n", "d", "e", "r", "s">>>>,
     <<<<"g", "r", "e", "a", "t", " ", "e", "n", "c", "o", "u", "n", "t", "e", "r", "s">>,
       <<"g", "r", "e", "a", "t", "-", "e", "n", "c", "o", "u", "n", "t", "e", "r", "s">>>>,
     <<<<"m", "a", "j", "e", "s", "t", "i", "c", " ", "d", "a", "w", "n">>,
       <<"m", "a", "j", "e", "s", "t", "i", "c", "-", "d", "a", "w", "n">>>>,
     <<<<"l", "e", "g", "e", "n", "d", "s", " ", "a", "w", "a", "k", "e", "n", "e", "d">>,
       <<"l", "e", "g", "e", "n", "d", "s", "-", "a", "w", "a", "k", "e", "n", "e", "d">>>>,
     <<<<"s", "t", "o", "r", "m", "f", "r", "o", "n", "t">>,
       <<"s", "t", "o", "r", "m", "f", "r", "o", "n", "t">>>>,
     <<<<"p", "l", "a", "t", "i", "n", "u", "m">>,
       <<"p", "l", "a", "t", "i", "n", "u", "m">>>>,
     <<<<"r", "i", "s", "i", "n", "g", " ", "r", "i", "v", "a", "l", "s">>,
       <<"r", "i", "s", "i", "n", "g", "-", "r", "i", "v", "a", "l", "s">>>>,
     <<<<"s", "u", "p", "r", "e", "m", "e", " ", "v", "i", "c", "t", "o", "r", "s">>,
       <<"s", "u", "p", "r", "e", "m", "e", "-", "v", "i", "c", "t", "o", "r", "s">>>>,
     <<<<"a", "r", "c", "e", "u", "s">>,
       <<"a", "r", "c", "e", "u", "s">>>>,
     <<<<"h", "e", "a", "r", "t", "g", "o", "l", "d", " ", "&", " ", "s", "o", "u", "l", "s", "i", "l", "v", "e", "r">>,
       <<"h", "e", "a", "r", "t", "g", "o", "l", "d", "-", "s", "o", "u", "l", "s", "i", "l", "v", "e", "r">>>>,
     <<<<"u", "n", "l", "e", "a", "s", "h", "e", "d">>,
       <<"u", "n", "l", "e", "a", "s", "h", "e", "d">>>>,
     <<<<"u", "n", "d", "a", "u", "n", "t", "e", "d">>,
       <<"u", "n", "d", "a", "u", "n", "t", "e", "d">>>>,
     <<<<"t", "r", "i", "u", "m", "p", "h", "a", "n", "t">>,
       <<"t", "r", "i", "u", "m", "p", "h", "a", "n", "t">>>>,
     <<<<"c", "a", "l", "l", " ", "o", "f", " ", "l", "e", "g", "e", "n", "d", "s">>,
       <<"c", "a", "l", "l", "-", "o", "f", "-", "l", "e", "g", "e", "n", "d", "s">>>>,
     <<<<"b", "l", "a", "c", "k", " ", "&", " ", "w", "h", "i", "t", "e">>,
       <<"b", "l", "a", "c", "k", "-", "w", "h", "i", "t", "e">>>>,
     <<<<"e", "m", "e", "r", "g", "i", "n", "g", " ", "p", "o", "w", "e", "r", "s">>,
       <<"e", "m", "e", "r", "g", "i", "n", "g", "-", "p", "o", "w", "e", "r", "s">>>>,
     <<<<"n", "o", "b", "l", "e", " ", "v", "i", "c", "t", "o", "r", "i", "e", "s">>,
       <<"n", "o", "b", "l", "e", "-", "v", "i", "c", "t", "o", "r", "i", "e", "s">>>>,
     <<<<"n", "e", "x", "t", " ", "d", "e", "s", "t", "i", "n", "i", "e", "s">>,
       <<"n", "e", "x", "t", "-", "d", "e", "s", "t", "i", "n", "i", "e", "s">>>>,
     <<<<"d", "a", "r", "k", " ", "e", "x", "p", "l", "o", "r", "e", "r", "s">>,
       <<"d", "a", "r", "k", "-", "e", "x", "p", "l", "o", "r", "e", "r", "s">>>>,
     <<<<"d", "r", "a", "g", "o", "n", "s", " ", "e", "x", "a", "l", "t", "e", "d">>,
       <<"d", "r", "a", "g", "o", "n", "s", "-", "e", "x", "a", "l", "t", "e", "d">>>>,
     <<<<"b", "o", "u", "n", "d", "a", "r", "i", "e", "s", " ", "c", "r", "o", "s", "s", "e", "d">>,
       <<"b", "o", "u", "n", "d", "a", "r", "i", "e", "s", "-", "c", "r", "o", "s", "s", "e", "d">>>>,
     <<<<"p", "l", "a", "s", "m", "a", " ", "s", "t", "o", "r", "m">>,
       <<"p", "l", "a", "s", "m", "a", "-", "s", "t", "o", "r", "m">>>>,
     <<<<"p", "l", "a", "s", "m", "a", " ", "f", "r", "e", "e", "z", "e">>,
       <<"p", "l", "a", "s", "m", "a", "-", "f", "r", "e", "e", "z", "e">>>>,
     <<<<"p", "l", "a", "s", "m", "a", " ", "b", "l", "a", "s", "t">>,
       <<"p", "l", "a", "s", "m", "a", "-", "b", "l", "a", "s", "t">>>>,
     <<<<"l", "e", "g", "e", "n", "d", "a", "r", "y", " ", "t", "r", "e", "a", "s", "u", "r", "e", "s">>,
       <<"l", "e", "g", "e", "n", "d", "a", "r", "y", "-", "t", "r", "e", "a", "s", "u", "r", "e", "s">>>>,
     <<<<"x", "y">>,
       <<"x", "y">>>>,
     <<<<"f", "l", "a", "s", "h", "f", "i", "r", "e">>,
       <<"f", "l", "a", "s", "h", "f", "i", "r", "e">>>>,
     <<<<"f", "u", "r", "i", "o", "u", "s", " ", "f", "i", "s", "t", "s">>,
       <<"f", "u", "r", "i", "o", "u", "s", "-", "f", "i", "s", "t", "s">>>>,
     <<<<"p", "h", "a", "n", "t", "o", "m", " ", "f", "o", "r", "c", "e", "s">>,
       <<"p", "h", "a", "n", "t", "o", "m", "-", "f", "o", "r", "c", "e", "s">>>>,
     <<<<"p", "r", "i", "m", "a", "l", " ", "c", "l", "a", "s", "h">>,
       <<"p", "r", "i", "m", "a", "l", "-", "c", "l", "a", "s", "h">>>>,
     <<<<"r", "o", "a", "r", "i", "n", "g", " ", "s", "k", "i", "e", "s">>,
       <<"r", "o", "a", "r", "i", "n", "g", "-", "s", "k", "i", "e", "s">>>>,
     <<<<"a", "n", "c", "i", "e", "n", "t", " ", "o", "r", "i", "g", "i", "n", "s">>,
       <<"a", "n", "c", "i", "e", "n", "t", "-", "o", "r", "i", "g", "i", "n", "s">>>>,
     <<<<"b", "r", "e", "a", "k", "t", "h", "r", "o", "u", "g", "h">>,
       <<"b", "r", "e", "a", "k", "t", "h", "r", "o", "u", "g", "h">>>>,
     <<<<"b", "r", "e", "a", "k", "p", "o", "i", "n", "t">>,
       <<"b", "r", "e", "a", "k", "p", "o", "i", "n", "t">>>>,
     <<<<"f", "a", "t", "e", "s", " ", "c", "o", "l", "l", "i", "d", "e">>,
       <<"f", "a", "t", "e", "s", "-", "c", "o", "l", "l", "i", "d", "e">>>>,
     <<<<"s", "t", "e", "a", "m", " ", "s", "i", "e", "g", "e">>,
       <<"s", "t", "e", "a", "m", "-", "s", "i", "e", "g", "e">>>>,
     <<<<"e", "v", "o", "l", "u", "t", "i", "o", "n", "s">>,
       <<"e", "v", "o", "l", "u", "t", "i", "o", "n", "s">>>>,
     <<<<"s", "u", "n", " ", "&", " ", "m", "o", "o", "n">>,
       <<"s", "u", "n", "-", "m", "o", "o", "n">>>>,
     <<<<"g", "u", "a", "r", "d", "i", "a", "n", "s", " ", "r", "i", "s", "i", "n", "g">>,
       <<"g", "u", "a", "r", "d", "i", "a", "n", "s", "-", "r", "i", "s", "i", "n", "g">>>>,
     <<<<"b", "u", "r", "n", "i", "n", "g", " ", "s", "h", "a", "d", "o", "w", "s">>,
       <<"b", "u", "r", "n", "i", "n", "g", "-", "s", "h", "a", "d", "o", "w", "s">>>>,
     <<<<"c", "r", "i", "m", "s", "o", "n", " ", "i", "n", "v", "a", "s", "i", "o", "n">>,
       <<"c", "r", "i", "m", "s", "o", "n", "-", "i", "n", "v", "a", "s", "i", "o", "n">>>>,
     <<<<"u", "l", "t", "r", "a", " ", "p", "r", "i", "s", "m">>,
       <<"u", "l", "t", "r", "a", "-", "p", "r", "i", "s", "m">>>>,
     <<<<"f", "o", "r", "b", "i", "d", "d", "e", "n", " ", "l", "i", "g", "h", "t">>,
       <<"f", "o", "r", "b", "i", "d", "d", "e", "n", "-", "l", "i", "g", "h", "t">>>>,
     <<<<"c", "e", "l", "e", "s", "t", "i", "a", "l", " ", "s", "t", "o", "r", "m">>,
       <<"c", "e", "l", "e", "s", "t", "i", "a", "l", "-", "s", "t", "o", "r", "m">>>>,
     <<<<"l", "o", "s", "t", " ", "t", "h", "u", "n", "d", "e", "r">>,
       <<"l", "o", "s", "t", "-", "t", "h", "u", "n", "d", "e", "r">>>>,
     <<<<"t", "e", "a", "m", " ", "u", "p">>,
       <<"t", "e", "a", "m", "-", "u", "p">>>>,
     <<<<"d", "e", "t", "e", "c", "t", "i", "v", "e", " ", "p", "i", "k", "a", "c", "h", "u">>,
       <<"d", "e", "t", "e", "c", "t", "i", "v", "e", "-", "p", "i", "k", "a", "c", "h", "u">>>>,
     <<<<"u", "n", "b", "r", "o", "k", "e", "n", " ", "b", "o", "n", "d", "s">>,
       <<"u", "n", "b", "r", "o", "k", "e", "n", "-", "b", "o", "n", "d", "s">>>>,
     <<<<"u", "n", "i", "f", "i", "e", "d", " ", "m", "i", "n", "d", "s">>,
       <<"u", "n", "i", "f", "i", "e", "d", "-", "m", "i", "n", "d", "s">>>>,
     <<<<"h", "i", "d", "d", "e", "n", " ", "f", "a", "t", "e", "s">>,
       <<"h", "i", "d", "d", "e", "n", "-", "f", "a", "t", "e", "s">>>>,
     <<<<"c", "o", "s", "m", "i", "c", " ", "e", "c", "l", "i", "p", "s", "e">>,
       <<"c", "o", "s", "m", "i", "c", "-", "e", "c", "l", "i", "p", "s", "e">>>>,
     <<<<"s", "w", "o", "r", "d", " ", "&", " ", "s", "h", "i", "e", "l", "d">>,
       <<"s", "w", "o", "r", "d", "-", "s", "h", "i", "e", "l", "d">>>>,
     <<<<"r", "e", "b", "e", "l", " ", "c", "l", "a", "s", "h">>,
       <<"r", "e", "b", "e", "l", "-", "c", "l", "a", "s", "h">>>>,
     <<<<"d", "a", "r", "k", "n", "e", "s", "s", " ", "a", "b", "l", "a", "z", "e">>,
       <<"d", "a", "r", "k", "n", "e", "s", "s", "-", "a", "b", "l", "a", "z", "e">>>>,
     <<<<"c", "h", "a", "m", "p", "i", "o", "n", "s", " ", "p", "a", "t", "h">>,
       <<"c", "h", "a", "m", "p", "i", "o", "n", "s", "-", "p", "a", "t", "h">>>>,
     <<<<"v", "i", "v", "i", "d", " ", "v", "o", "l", "t", "a", "g", "e">>,
       <<"v", "i", "v", "i", "d", "-", "v", "o", "l", "t", "a", "g", "e">>>>,
     <<<<"s", "h", "i", "n", "i", "n", "g", " ", "f", "a", "t", "e", "s">>,
       <<"s", "h", "i", "n", "i", "n", "g", "-", "f", "a", "t", "e", "s">>>>,
     <<<<"b", "a", "t", "t", "l", "e", " ", "s", "t", "y", "l", "e", "s">>,
       <<"b", "a", "t", "t", "l", "e", "-", "s", "t", "y", "l", "e", "s">>>>,
     <<<<"c", "h", "i", "l", "l", "i", "n", "g", " ", "r", "e", "i", "g", "n">>,
       <<"c", "h", "i", "l", "l", "i", "n", "g", "-", "r", "e", "i", "g", "n">>>>,
     <<<<"e", "v", "o", "l", "v", "i", "n", "g", " ", "s", "k", "i", "e", "s">>,
       <<"e", "v", "o", "l", "v", "i", "n", "g", "-", "s", "k", "i", "e", "s">>>>,
     <<<<"c", "e", "l", "e", "b", "r", "a", "t", "i", "o", "n", "s">>,
       <<"c", "e", "l", "e", "b", "r", "a", "t", "i", "o", "n", "s">>>>,
     <<<<"f", "u", "s", "i", "o", "n", " ", "s", "t", "r", "i", "k", "e">>,
       <<"f", "u", "s", "i", "o", "n", "-", "s", "t", "r", "i", "k", "e">>>>,
     <<<<"b", "r", "i", "l", "l", "i", "a", "n", "t", " ", "s", "t", "a", "r", "s">>,
       <<"b", "r", "i", "l", "l", "i", "a", "n", "t", "-", "s", "t", "a", "r", "s">>>>,
     <<<<"a", "s", "t", "r", "a", "l", " ", "r", "a", "d", "i", "a", "n", "c", "e">>,
       <<"a", "s", "t", "r", "a", "l", "-", "r", "a", "d", "i", "a", "n", "c", "e">>>>,
     <<<<"p", "o", "k", "e", "m", "o", "n", " ", "g", "o">>,
       <<"p", "o", "k", "e", "m", "o", "n", "-", "g", "o">>>>,
     <<<<"l", "o", "s", "t", " ", "o", "r", "i", "g", "i", "n">>,
       <<"l", "o", "s", "t", "-", "o", "r", "i", "g", "i", "n">>>>,
     <<<<"s", "i", "l", "v", "e", "r", " ", "t", "e", "m", "p", "e", "s", "t">>,
       <<"s", "i", "l", "v", "e", "r", "-", "t", "e", "m", "p", "e", "s", "t">>>>,
     <<<<"c", "r", "o", "w", "n", " ", "z", "e", "n", "i", "t", "h">>,
       <<"c", "r", "o", "w", "n", "-", "z", "e", "n", "i", "t", "h">>>>,
     <<<<"s", "c", "a", "r", "l", "e", "t", " ", "&", " ", "v", "i", "o", "l", "e", "t">>,
       <<"s", "c", "a", "r", "l", "e", "t", "-", "v", "i", "o", "l", "e", "t">>>>,
     <<<<"p", "a", "l", "d", "e", "a", " ", "e", "v", "o", "l", "v", "e", "d">>,
       <<"p", "a", "l", "d", "e", "a", "-", "e", "v", "o", "l", "v", "e", "d">>>>,
     <<<<"o", "b", "s", "i", "d", "i", "a", "n", " ", "f", "l", "a", "m", "e", "s">>,
       <<"o", "b", "s", "i", "d", "i", "a", "n", "-", "f", "l", "a", "m", "e", "s">>>>,
     <<<<"p", "a", "r", "a", "d", "o", "x", " ", "r", "i", "f", "t">>,
       <<"p", "a", "r", "a", "d", "o", "x", "-", "r", "i", "f", "t">>>>,
     <<<<"p", "a", "l", "d", "e", "a", "n", " ", "f", "a", "t", "e", "s">>,
       <<"p", "a", "l", "d", "e", "a", "n", "-", "f", "a", "t", "e", "s">>>>,
     <<<<"t", "e", "m", "p", "o", "r", "a", "l", " ", "f", "o", "r", "c", "e", "s">>,
       <<"t", "e", "m", "p", "o", "r", "a", "l", "-", "f", "o", "r", "c", "e", "s">>>>,
     <<<<"t", "w", "i", "l", "i", "g", "h", "t", " ", "m", "a", "s", "q", "u", "e", "r", "a", "d", "e">>,
       <<"t", "w", "i", "l", "i", "g", "h", "t", "-", "m", "a", "s", "q", "u", "e", "r", "a", "d", "e">>>>,
     <<<<"s", "h", "r", "o", "u", "d", "e", "d", " ", "f", "a", "b", "l", "e">>,
       <<"s", "h", "r", "o", "u", "d", "e", "d", "-", "f", "a", "b", "l", "e">>>>,
     <<<<"s", "t", "e", "l", "l", "a", "r", " ", "c", "r", "o", "w", "n">>,
       <<"s", "t", "e", "l", "l", "a", "r", "-", "c", "r", "o", "w", "n">>>>,
     <<<<"p", "o", "k", "e", "m", "o", "n", " ", "1", "5", "1">>,
       <<"1", "5", "1">>>>,
     <<<<"1", "5", "1">>,
       <<"1", "5", "1">>>>,
     <<<<"2", "5", "t", "h", " ", "a", "n", "n", "i", "v", "e", "r", "s", "a", "r", "y", " ", "c", "o", "l", "l", "e", "c", "t", "i", "o", "n">>,
       <<"c", "e", "l", "e", "b", "r", "a", "t", "i", "o", "n", "s">>>>,
     <<<<"c", "l", "a", "s", "s", "i", "c", " ", "c", "o", "l", "l", "e", "c", "t", "i", "o", "n">>,
       <<"c", "l", "a", "s", "s", "i", "c", "-", "c", "o", "l", "l", "e", "c", "t", "i", "o", "n">>>>,
     <<<<"g", "e", "n", "e", "r", "a", "t", "i", "o", "n", "s">>,
       <<"g", "e", "n", "e", "r", "a", "t", "i", "o", "n", "s">>>>,
     <<<<"d", "o", "u", "b", "l", "e", " ", "c", "r", "i", "s", "i", "s">>,
       <<"d", "o", "u", "b", "l", "e", "-", "c", "r", "i", "s", "i", "s">>>>,
     <<<<"d", "r", "a", "g", "o", "n", " ", "v", "a", "u", "l", "t">>,
       <<"d", "r", "a", "g", "o", "n", "-", "v", "a", "u", "l", "t">>>>,
     <<<<"m", "c", "d", "o", "n", "a", "l", "d", "'", "s", " ", "c", "o", "l", "l", "e", "c", "t", "i", "o", "n">>,
       <<"m", "c", "d", "o", "n", "a", "l", "d", "s", "-", "c", "o", "l", "l", "e", "c", "t", "i", "o", "n">>>>}

\* [a-z0-9]
IsSlugChar(ch) == ch \in LowerCase \cup Digits

\* re.sub(r'[^a-z0-9]+', '-', str): every run of other characters becomes one hyphen
CollapseRuns(str) ==
    LET kept == {i \in DOMAIN str : IsSlugChar(str[i]) \/ i = 1 \/ IsSlugChar(str[i - 1])}
        at(k) == CHOOSE i \in kept : Cardinality({j \in kept : j <= i}) = k
    IN [k \in 1 .. Cardinality(kept) |-> IF IsSlugChar(str[at(k)]) THEN str[at(k)] ELSE "-"]

\* str.strip('-')
StripHyphens(str) ==
    LET kept == {i \in DOMAIN str : str[i] # "-"} IN
    IF kept = {} THEN <<>>
    ELSE SubSeq(str, CHOOSE i \in kept : \A j \in kept : i <= j,
                     CHOOSE i \in kept : \A j \in kept : j <= i)

\* re.sub(r'[^a-z0-9]+', '-', str).strip('-')
Slugify(str) == StripHyphens(CollapseRuns(str))

\* re.match(r'(\d+)', card_number).group(1); <<>>: no match
LeadingDigits(card_number) == SubSeq(card_number, 1, DigitRunEnd(card_number, 1) - 1)

\* PriceChartingScraper._build_card_url; the URL None is <<>>
BuildCardUrl(card_data) ==
    LET set_name == LowerStr(card_data.set_name)
        mapped == {pair \in SET_SLUG_MAPPING : pair[1] = set_name}
        set_slug == IF mapped # {} THEN (CHOOSE pair \in mapped : TRUE)[2]
                    ELSE Slugify(set_name)
        card_name == LowerStr(card_data.name)
        card_number == card_data.number
        card_slug == Slugify(card_name)
                         \o (IF card_number # <<>> /\ LeadingDigits(card_number) # <<>>
                             THEN <<"-">> \o LeadingDigits(card_number)
                             ELSE <<>>)
    IN IF set_slug = <<>> THEN <<>>
       ELSE BASE_URL \o <<"/", "g", "a", "m", "e", "/", "p", "o", "k", "e", "m", "o", "n", "-">> \o set_slug \o <<"/">> \o card_slug

\* the cards URLs are built for: short names, set names and numbers, and two
\* set names of the mapping
CardData ==
    [name : StringsUpTo({"a", "B", "-", "!"}, MaxSlugLen),
     set_name : StringsUpTo({"a", "B", "-", "!"}, MaxSlugLen)
                    \cup {<<"B", "a", "s", "e">>, <<"P", "o", "k", "e", "m", "o", "n", " ", "1", "5", "1">>},
     number : StringsUpTo({"5", "/", "a"}, MaxSlugLen)]

BuildCardUrlCall(card_data) ==
    /\ text.fn = "none"
    /\ text' = [fn |-> "_build_card_url", card_data |-> card_data,
                result |-> BuildCardUrl(card_data)]
    /\ UNCHANGED <<ledger, run, store, env, matcher, gate, scraper, inflight, response, runEnd>>

\* ----------------------------------------------------------- specifications
\* every entry point of the two refresh services
Next ==
    \/ FireScheduledPrices
    \/ \E card_ids \in CardIdInputs : TriggerManualRefresh(card_ids)
    \/ \E card_ids \in CardIdInputs : AdminManualPriceRefresh(card_ids)
    \/ \E card_ids \in CardIdInputs : TriggerManualMetadataRefresh(card_ids)
    \/ \E p \in Procs : ThreadStart(p)
    \/ \E p \in Procs, api_available \in BOOLEAN : ProbeReturns(p, api_available)
    \/ \E p \in Procs, scrape_result \in site : PricingItemReturns(p, scrape_result)
    \/ \E p \in Procs, api_card_data \in api \cup {NoMatch} : MetadataItemReturns(p, api_card_data)
    \/ \E p \in Procs : ItemTimeout(p)
    \/ \E p \in Procs : SleepDone(p)
    \/ \E p \in Procs : JobTimeout(p)
    \/ \E p \in Procs : JobTimeoutHandler(p)

Spec == Init /\ [][Next]_vars

\* the scheduled pricing refresh beside a manual metadata refresh
PairProcs == {"sched_prices", "manual_metadata"}

NextPair ==
    \/ FireScheduledPrices
    \/ \E card_ids \in CardIdInputs : TriggerManualMetadataRefresh(card_ids)
    \/ \E p \in PairProcs : ThreadStart(p)
    \/ \E p \in PairProcs, api_available \in BOOLEAN : ProbeReturns(p, api_available)
    \/ \E p \in PairProcs, scrape_result \in site : PricingItemReturns(p, scrape_result)
    \/ \E p \in PairProcs, api_card_data \in api \cup {NoMatch} : MetadataItemReturns(p, api_card_data)
    \/ \E p \in PairProcs : ItemTimeout(p)
    \/ \E p \in PairProcs : SleepDone(p)
    \/ \E p \in PairProcs : JobTimeout(p)
    \/ \E p \in PairProcs : JobTimeoutHandler(p)

SpecPair == Init /\ [][NextPair]_vars

\* the two refresh loops with items that raise
NextBackoff ==
    \/ FireScheduledPrices
    \/ \E card_ids \in CardIdInputs : TriggerManualMetadataRefresh(card_ids)
    \/ \E p \in PairProcs : ThreadStart(p)
    \/ \E p \in PairProcs, api_available \in BOOLEAN : ProbeReturns(p, api_available)
    \/ \E p \in PairProcs, scrape_result \in site : PricingItemReturns(p, scrape_result)
    \/ \E p \in PairProcs, api_card_data \in api \cup {NoMatch} : MetadataItemReturns(p, api_card_data)
    \/ \E p \in PairProcs : ItemTimeout(p)
    \/ \E p \in PairProcs : ItemRaises(p)
    \/ \E p \in PairProcs : BackoffDone(p)
    \/ \E p \in PairProcs : SleepDone(p)
    \/ \E p \in PairProcs : JobTimeout(p)
    \/ \E p \in PairProcs : JobTimeoutHandler(p)

SpecBackoff == Init /\ [][NextBackoff]_vars

\* the scheduled pricing refresh with ledger writes that can fail in storage
NextFault ==
    \/ FireScheduledPrices
    \/ CreateJobHistoryFails("sched_prices")
    \/ ErrorReturned("sched_prices")
    \/ \E scrape_result \in site : PricingItemReturns("sched_prices", scrape_result)
    \/ \E scrape_result \in site : ProgressWriteFails("sched_prices", scrape_result)
    \/ ItemTimeout("sched_prices")
    \/ SleepDone("sched_prices")
    \/ CompletionWriteFails("sched_prices")
    \/ JobTimeout("sched_prices")
    \/ JobTimeoutHandler("sched_prices")
    \/ Tick

SpecFault == Init /\ [][NextFault]_vars

\* the scheduled pricing refresh alone, against every kind of scrape result,
\* as time passes
PricedResult == [pricing_data |-> "prices", final_url |-> GameUrl]
InitPricing == InitWith({1, 2}, {ApiFull}, {NoResult, PricedResult})

NextPricing ==
    \/ FireScheduledPrices
    \/ \E scrape_result \in site : PricingItemReturns("sched_prices", scrape_result)
    \/ ItemTimeout("sched_prices")
    \/ SleepDone("sched_prices")
    \/ JobTimeout("sched_prices")
    \/ JobTimeoutHandler("sched_prices")
    \/ Tick

SpecPricing == InitPricing /\ [][NextPricing]_vars

\* the scheduled pricing refresh beside changes of collection entries
NextRemoval ==
    \/ FireScheduledPrices
    \/ \E scrape_result \in site : PricingItemReturns("sched_prices", scrape_result)
    \/ ItemTimeout("sched_prices")
    \/ SleepDone("sched_prices")
    \/ JobTimeout("sched_prices")
    \/ JobTimeoutHandler("sched_prices")
    \/ \E c \in CardIds, qty \in 0 .. MaxQty : UpdateCollectionEntry(c, qty)

SpecRemoval == InitPricing /\ [][NextRemoval]_vars

\* the metadata refresh alone, against every kind of API record, as time passes
InitMeta == InitWith(CardIds, ApiUniverse, {NoResult})

NextMeta ==
    \/ \E card_ids \in CardIdInputs : TriggerManualMetadataRefresh(card_ids)
    \/ \E p \in MetadataProcs : ThreadStart(p)
    \/ \E p \in MetadataProcs, api_available \in BOOLEAN : ProbeReturns(p, api_available)
    \/ \E p \in MetadataProcs, api_card_data \in api \cup {NoMatch} : MetadataItemReturns(p, api_card_data)
    \/ \E p \in MetadataProcs : ItemTimeout(p)
    \/ \E p \in MetadataProcs : SleepDone(p)
    \/ \E p \in MetadataProcs : JobTimeout(p)
    \/ \E p \in MetadataProcs : JobTimeoutHandler(p)

SpecMeta == InitMeta /\ [][NextMeta]_vars

\* cards are selected into the collection, starting from one card
InitSelect == InitWith({1}, {ApiFull, ApiSparse}, ScrapeResults)

NextSelect ==
    \/ \E product_id \in CardIds, name \in CardNames, scrape_result \in site,
          api_available \in BOOLEAN, api_card_data \in api \cup {NoMatch} :
            SelectCard(product_id, name, scrape_result, api_available, api_card_data)
    \/ Tick

SpecSelect == InitSelect /\ [][NextSelect]_vars

\* the two routes that add a card, requests overlapping, from an empty database
InitCollect ==
    InitWith({}, {ApiFull}, {NoResult, [pricing_data |-> None, final_url |-> GameUrl]})

NextCollect ==
    \/ \E r \in Requests, pc_url \in PcUrls \cup {<<>>}, name \in {"Alpha", ""} :
            SelectCardBegins(r, pc_url, name)
    \/ \E r \in Requests, scrape_result \in site, api_available \in BOOLEAN,
          api_card_data \in api \cup {NoMatch} :
            SelectCardFinishes(r, scrape_result, api_available, api_card_data)
    \/ \E r \in Requests, pc_product_id \in ProductIds \cup {0}, name \in {"Alpha", ""} :
            AddToCollectionBegins(r, pc_product_id, name)
    \/ \E r \in Requests, form \in site :
            AddToCollectionFinishes(r, form # NoResult /\ form.pricing_data # None)

SpecCollect == InitCollect /\ [][NextCollect]_vars

\* the matcher alone, over every list of search results
NextMatch ==
    \E candidates \in CandidateLists, target \in Targets : FindBestMatchCall(candidates, target)

SpecMatch == Init /\ [][NextMatch]_vars

\* one candidate search, over every answer of the remote API
NextSearch ==
    \/ \E target \in Targets : SearchAndFindBestMatchCall(target)
    \/ \E found \in SearchAnswers : SearchCardsReturns(found)

SpecSearch == Init /\ [][NextSearch]_vars

\* one fetch gate and its sequential callers
NextGate ==
    \/ Throttle
    \/ ThrottleWakes
    \/ GateTick

SpecGate == Init /\ [][NextGate]_vars

\* one fetch gate and callers that are inside it together
NextGateShared ==
    \/ \E r \in Requests : ConcurrentThrottle(r)
    \/ \E r \in Requests : ConcurrentThrottleWakes(r)
    \/ GateTick

SpecGateShared == Init /\ [][NextGateShared]_vars

\* the query parser alone, over every short query
NextParse == \E query \in Queries : ParseCall(query)

SpecParse == Init /\ [][NextParse]_vars

\* the price extractor alone, over every short page
NextExtract ==
    /\ text.fn = "none"
    /\ \E price_elements \in PricePages : ParsePricesFromHtmlCall(price_elements)

SpecExtract == Init /\ [][NextExtract]_vars

\* price-text parsing alone, over every short text
NextPrice == \E price_text \in PriceTexts : ParsePriceTextCall(price_text)

SpecPrice == Init /\ [][NextPrice]_vars

\* URL construction alone, over short card data
NextUrl == \E card_data \in CardData : BuildCardUrlCall(card_data)

SpecUrl == Init /\ [][NextUrl]_vars

\* the product-page scraper and its callers, one call at a time
NextScrape ==
    \/ \E url \in ProductUrls : ScrapeCall(url)
    \/ \E page \in Pages : FetchReturns(page)
    \/ ScraperTick

SpecScrape == Init /\ [][NextScrape]_vars

\* ---------------------------------------------------------------- typing
TypeOK ==
    /\ Len(ledger) <= MaxRows
    /\ Len(runEnd) = Len(ledger)
    /\ \A i \in DOMAIN ledger : ledger[i].status \in Terminal \cup {"running"}
    /\ \A p \in Procs : run[p].pc \in {"idle", "spawned", "probe", "item", "pause", "backoff", "timed_out", "error"}
    /\ clock \in 0 .. MaxClock

\* ------------------------------------------------------------ the ledger
Category(row) == IF LikeMetadata(row.job_name) THEN "metadata" ELSE "pricing"

Counters(row) == <<row.processed, row.succeeded, row.failed>>

\* C1: the ledger never holds two rows of the same job category that are
\* both `running`.
C1_OneRunningPerCategory ==
    \A i, j \in DOMAIN ledger :
        (i # j /\ ledger[i].status = "running" /\ ledger[j].status = "running")
            => Category(ledger[i]) # Category(ledger[j])

\* C2: the row of a run that the whole-job timeout ended has status `failed`
\* and carries an error message.
C2_TimedOutRowFailed ==
    \A i \in DOMAIN ledger :
        runEnd[i].how = "timeout"
            => ledger[i].status = "failed" /\ ledger[i].error_message # None

\* C3: a row that is terminal keeps its status and its counters in every
\* step of every run.
C3_TerminalRowsImmutable ==
    [][\A i \in DOMAIN ledger :
          ledger[i].status \in Terminal
              => /\ ledger'[i].status = ledger[i].status
                 /\ Counters(ledger'[i]) = Counters(ledger[i])]_vars

\* C6: when an item starts, the row already shows the counts of all items
\* before it.
C6_ProgressBeforeNextItem ==
    \A p \in Procs :
        run[p].pc = "item"
            => Counters(ledger[run[p].job_history_id])
                   = <<run[p].processed - 1, run[p].succeeded, run[p].failed>>

\* C8: a pricing item whose fetched page held no prices was not counted as
\* succeeded.
C8_NoPricesCountedFailed ==
    \A p \in PricingProcs :
        (run[p].pc = "pause" /\ run[p].last.input.pricing_data = None)
            => /\ ~run[p].last.success
               /\ run[p].succeeded + 1 <= run[p].processed

\* C4: the row of a run whose loop ran to its end is `completed` exactly
\* when the run counted no failure and `completed_with_errors` otherwise, and
\* holds the counters the run returned.
C4_CompletionStatus ==
    \A i \in DOMAIN ledger :
        runEnd[i].how = "loop"
            => /\ (runEnd[i].failed = 0) <=> (ledger[i].status = "completed")
               /\ (runEnd[i].failed # 0) <=> (ledger[i].status = "completed_with_errors")
               /\ Counters(ledger[i])
                      = <<runEnd[i].processed, runEnd[i].succeeded, runEnd[i].failed>>

\* a run of two items, both failed, has ended
C4_Witness ==
    \E i \in DOMAIN ledger :
        /\ runEnd[i].how = "loop"
        /\ runEnd[i].processed = 2
        /\ runEnd[i].failed = 2
        /\ ledger[i].status = "completed_with_errors"

\* the items a run has handed to _process_single_card so far are the first
\* `processed` selected items, in selection order
AttemptedInOrder(r) ==
    /\ r.processed <= Len(r.cards_to_update)
    /\ r.attempts = SubSeq(r.cards_to_update, 1, r.processed)

C7_ProbeFailure ==
    [][\A p \in MetadataProcs :
          (/\ run[p].pc = "probe"
           /\ Len(runEnd') = Len(runEnd) + 1
           /\ runEnd'[Len(runEnd')].how = "unavailable")
              => /\ Len(ledger') = Len(ledger) + 1
                 /\ SubSeq(ledger', 1, Len(ledger)) = ledger
                 /\ ledger'[Len(ledger')].status = "failed"
                 /\ ledger'[Len(ledger')].error_message # None
                 /\ Counters(ledger'[Len(ledger')]) = <<0, 0, 0>>
                 /\ cards' = cards
                 /\ run'[p].pc = "idle"]_vars

\* a probe has failed
C7_Witness ==
    \E i \in DOMAIN ledger :
        /\ runEnd[i].how = "unavailable"
        /\ ledger[i].status = "failed"
        /\ ledger[i].job_name = "manual_metadata_refresh"

\* ------------------------------------------------------- metadata of a card
NameMissing(api_card) ==
    LET d == ExtractCardData(api_card, 0) IN
    ~IsEmptyDict(d) /\ d.name = None

ListFieldNotAList(api_card) ==
    LET d == ExtractCardData(api_card, 0) IN
    ~IsEmptyDict(d) /\ d.types # None /\ ~IsList(d.types)

\* the metadata run p gets the lookup result of its current item
ItemStep(p) == run[p].pc = "item" /\ run'[p].pc = "pause"

CountedFailed(p) ==
    run'[p].failed = run[p].failed + 1 /\ run'[p].succeeded = run[p].succeeded

CountedSucceeded(p) ==
    run'[p].succeeded = run[p].succeeded + 1 /\ run'[p].failed = run[p].failed

\* C9 as stated: a record without its required name, or with a list field
\* that is not a list, is counted failed and leaves the stored card as it was.
C9_MalformedRejected ==
    [][\A p \in MetadataProcs :
          (ItemStep(p) /\ (NameMissing(run'[p].last.input) \/ ListFieldNotAList(run'[p].last.input)))
              => CountedFailed(p) /\ cards' = cards]_vars

\* C9 amended: a record without its required name is counted failed and
\* leaves the stored card as it was; a record that has its name but a list
\* field that is not a list is stored with that field as the empty list and
\* is counted succeeded.
C9_MalformedAmended ==
    [][\A p \in MetadataProcs :
          LET api_card == run'[p].last.input
              id == run'[p].last.card
          IN /\ (ItemStep(p) /\ NameMissing(api_card))
                    => CountedFailed(p) /\ cards' = cards
             /\ (ItemStep(p) /\ ~NameMissing(api_card) /\ ListFieldNotAList(api_card))
                    => /\ CountedSucceeded(p)
                       /\ cards'[id].types = EmptyList
                       /\ cards'[id].api_id = api_card.id]_vars

\* one run has stored a record whose list field was not a list and has then
\* rejected a record without a name
C9_Witness ==
    \E p \in MetadataProcs :
        /\ run[p].pc = "pause"
        /\ run[p].last.input = ApiNoName
        /\ ~run[p].last.success
        /\ cards[run[p].last.card].api_id = None
        /\ \E c \in DOMAIN cards : cards[c].api_id = ApiBadList.id /\ cards[c].types = EmptyList

\* C10: a metadata match applied by the refresh job leaves the card's name as
\* it was, sets every other metadata field from the API record and refreshes
\* the sync timestamp.
C10_MatchKeepsName ==
    [][\A p \in MetadataProcs :
          (ItemStep(p) /\ run'[p].last.success)
              => LET id == run'[p].last.card
                     d == RepairCardData(ExtractCardData(run'[p].last.input, clock))
                 IN /\ cards'[id].name = cards[id].name
                    /\ \A f \in DOMAIN d \ {"name"} : cards'[id][f] = d[f]
                    /\ cards'[id].api_last_synced_at = clock]_vars

\* ---------------------------------------------------------------- matcher
NameSignal(card, target) ==
    \/ Normalize(card.name) = Normalize(target.name)
    \/ Contains(Normalize(target.name), Normalize(card.name))

\* C11: a card the matcher returns scores at least 50, no candidate scores
\* higher, and its normalised name equals or contains the normalised target
\* name.
C11_ReturnedHasNameSignal ==
    (matcher.fn = "find_best_match" /\ matcher.result # <<>>)
        => LET card == matcher.result[1] IN
           /\ Score(card, matcher.target) >= MatchThreshold
           /\ \A i \in DOMAIN matcher.cards :
                  Score(matcher.cards[i], matcher.target) <= Score(card, matcher.target)
           /\ NameSignal(card, matcher.target)

\* ------------------------------------------------------------- fetch gate
\* C12: two consecutive returns of the gate are at least MinInterval apart,
\* and a call that found at least MinInterval elapsed since the last return
\* did not sleep.
C12_GateSpacing ==
    /\ (gate.prev_return # Null /\ gate.returned_at # Null)
           => gate.returned_at - gate.prev_return >= MinInterval
    /\ (gate.called_at # Null /\ gate.elapsed >= MinInterval)
           => ~gate.slept /\ gate.pc = "idle" /\ gate.returned_at = gate.called_at

\* a call slept and returned exactly MinInterval after the return before it
C12_Witness ==
    /\ gate.pc = "idle"
    /\ gate.slept
    /\ gate.prev_return # Null
    /\ gate.returned_at = gate.prev_return + MinInterval
    /\ gate.called_at > gate.prev_return

\* -------------------------------------------------------- product scraper
\* C13: a call with an offers URL fetches at most two pages, and the result
\* it returns after following a link carries the URL of the canonical page,
\* not an offers URL.
C13_RedirectOnce ==
    (scraper.requested # None /\ IsOffersUrl(scraper.requested))
        => /\ scraper.fetches <= 2
           /\ (scraper.pc = "idle" /\ scraper.fetches = 2 /\ scraper.result # NoResult)
                  => ~IsOffersUrl(scraper.result.final_url)

\* C14: a call for a URL that was scraped successfully less than the TTL
\* before returns that same result without a fetch, and a call made once the
\* TTL has elapsed fetches again.
C14_CachedByRequestedUrl ==
    (scraper.requested # None /\ scraper.prior # <<>>)
        => IF scraper.called_at - scraper.prior[1].at < CacheTtl
           THEN /\ scraper.fetches = 0
                /\ scraper.pc = "idle"
                /\ scraper.result = scraper.prior[1].result
           ELSE scraper.pc = "fetch" \/ scraper.fetches >= 1

\* ------------------------------------------------------ single-run guard
RunningIn(category) ==
    \E i \in DOMAIN ledger : ledger[i].status = "running" /\ Category(ledger[i]) = category

\* C15: a manual start is answered 409 only while a row of its own category
\* is running: a running metadata row never rejects a manual pricing start,
\* and a running pricing row never rejects a manual metadata start.
C15_GuardPerCategory ==
    [][\A category \in {"pricing", "metadata"} :
           (response'[category] = 409 /\ response[category] # 409)
               => RunningIn(category)]_vars

\* ------------------------------------------------------ collection routes
CardsOf(product_id) == {c \in DOMAIN cards : cards[c].tcg_id = TcgId(product_id)}
LinksOf(product_id) == {c \in DOMAIN links : links[c].pc_product_id = product_id}

ProductIdUnique ==
    \A product_id \in ProductIds :
        Cardinality(CardsOf(product_id)) <= 1 /\ Cardinality(LinksOf(product_id)) <= 1

\* the request r is answered 200 in this step
Answered(r) == inflight[r].pc # "idle" /\ inflight'[r].pc = "idle" /\ inflight'[r].status = 200

\* C16: however select-card and add-to-collection requests interleave, every
\* product id has at most one Card and at most one PriceLink; and a
\* select-card of a product that is already linked creates no card, link or
\* collection entry: it adds one to the quantity of the linked card's entry.
C16_ProductIdUnique ==
    [][/\ ProductIdUnique'
       /\ \A r \in Requests :
              (Answered(r) /\ inflight[r].route = "select_card" /\ inflight[r].existing_link # 0)
                  => LET id == inflight[r].existing_link IN
                     /\ DOMAIN cards' = DOMAIN cards
                     /\ DOMAIN links' = DOMAIN links
                     /\ id \in DOMAIN collection
                     /\ collection' = [collection EXCEPT ![id] = @ + 1]]_vars

\* product 1 has one card and its entry holds two copies: the last select-card
\* found the link and was answered 200, while the other request was refused
\* with 500
C16_Witness ==
    /\ Cardinality(CardsOf(1)) = 1
    /\ \E id \in CardsOf(1) : id \in DOMAIN collection /\ collection[id] = 2
    /\ inflight["first"].pc = "idle"
    /\ inflight["first"].route = "select_card"
    /\ inflight["first"].existing_link # 0
    /\ inflight["first"].status = 200
    /\ inflight["second"].pc = "idle"
    /\ inflight["second"].status = 500

\* ----------------------------------------------------------- query parser
\* C17: parsing the space-joined name tokens of a parse gives the same name
\* tokens and no number, no flags and no hints.
C17_ParseIdempotent ==
    text.fn = "parse"
        => LET again == Parse(Join(text.result.name_tokens)) IN
           /\ again.name_tokens = text.result.name_tokens
           /\ again.number = <<>>
           /\ again.flags = {}
           /\ again.hints = <<>>

\* ------------------------------------------------------------- price text
\* "$", digits with optional thousands separators, optional two-digit cents:
\* the dollars and the cents such a text holds, <<>> for any other text
PriceShape(str) ==
    IF str # <<>> /\ str[1] = "$" /\ DigitsAt(str, 2, 1)
          /\ CentsEnd(str, ThousandsEnd(str, DigitRunEnd(str, 2))) = Len(str) + 1
    THEN LET d == ThousandsEnd(str, DigitRunEnd(str, 2))
         IN <<DecimalValue(SelectSeq(SubSeq(str, 2, d - 1), LAMBDA ch : ch # ",")),
              IF d > Len(str) THEN 0 ELSE DecimalValue(SubSeq(str, d + 1, Len(str)))>>
    ELSE <<>>

\* C18: a text that is a currency-prefixed decimal number parses to exactly
\* dollars * 100 + cents, and a text without a currency-prefixed number
\* parses to None.
C18_ExactCents ==
    text.fn = "_parse_price_text"
        => /\ PriceShape(text.text) # <<>>
                  => text.result = PriceShape(text.text)[1] * 100 + PriceShape(text.text)[2]
           /\ (\A i \in DOMAIN text.text : ~(text.text[i] = "$" /\ DigitsAt(text.text, i + 1, 1)))
                  => text.result = Null

\* ------------------------------------------------------- URL construction
\* lower-case letters and digits in groups joined by single hyphens
WellFormedSlug(slug) ==
    /\ \A i \in DOMAIN slug : IsSlugChar(slug[i]) \/ slug[i] = "-"
    /\ \A i \in DOMAIN slug : slug[i] = "-" => (i > 1 /\ i < Len(slug) /\ slug[i + 1] # "-")

UrlPrefix == BASE_URL \o <<"/", "g", "a", "m", "e", "/", "p", "o", "k", "e", "m", "o", "n", "-">>

\* C19: for a card with a non-empty set name the URL is
\* BASE/game/pokemon-<set-slug>/<card-slug>: the set slug is the mapped slug of
\* a known set and the slugified set name otherwise, both slugs are
\* well-formed, and the card slug ends with "-<n>" exactly when the number
\* starts with digits, n being the leading digit run.
C19_UrlShape ==
    (text.fn = "_build_card_url" /\ text.card_data.set_name # <<>>)
        => LET card_data == text.card_data
               url == text.result
               rest == SubSeq(url, Len(UrlPrefix) + 1, Len(url))
               slash == {i \in DOMAIN rest : rest[i] = "/"}
               set_slug == SubSeq(rest, 1, (CHOOSE i \in slash : TRUE) - 1)
               card_slug == SubSeq(rest, (CHOOSE i \in slash : TRUE) + 1, Len(rest))
               known == {pair \in SET_SLUG_MAPPING : pair[1] = LowerStr(card_data.set_name)}
               n == LeadingDigits(card_data.number)
           IN /\ url # <<>>
              /\ SubSeq(url, 1, Len(UrlPrefix)) = UrlPrefix
              /\ Cardinality(slash) = 1
              /\ \A pair \in known : set_slug = pair[2]
              /\ known = {} => set_slug = Slugify(LowerStr(card_data.set_name))
              /\ WellFormedSlug(set_slug)
              /\ WellFormedSlug(card_slug)
              /\ card_slug = Slugify(LowerStr(card_data.name))
                                 \o (IF n # <<>> THEN <<"-">> \o n ELSE <<>>)

IsMetadataRow(row) == LikeMetadata(row.job_name)

\* C21: the force-fail that follows a whole-job timeout changes only rows of
\* the category of the run that timed out; every row of the other category
\* keeps all of its fields.
C21_ForceFailOwnCategory ==
    [][\A p \in Procs :
          (run[p].pc = "timed_out" /\ run'[p].pc = "idle")
          => \A i \in DOMAIN ledger :
                 (IsMetadataRow(ledger[i]) # (p \in MetadataProcs))
                 => ledger'[i] = ledger[i]]_vars

\* ----------------------------------------------------- counters of a row
\* the row of a run that has not returned yet
RowOf(p) == ledger[run[p].job_history_id]

\* C22: in every state of every row processed = succeeded + failed, no
\* counter of a row ever decreases, and the row of a run in its loop never
\* shows more processed items than the run selected.
C22_CountersConsistent ==
    [][/\ \A i \in DOMAIN ledger' :
              ledger'[i].processed = ledger'[i].succeeded + ledger'[i].failed
       /\ \A i \in DOMAIN ledger :
              /\ ledger'[i].processed >= ledger[i].processed
              /\ ledger'[i].succeeded >= ledger[i].succeeded
              /\ ledger'[i].failed >= ledger[i].failed
       /\ \A p \in Procs :
              run'[p].pc \in {"item", "pause", "backoff", "timed_out"}
              => ledger'[run'[p].job_history_id].processed <= Len(run'[p].cards_to_update)]_vars

\* -------------------------------------------------- backoff after a failure
\* the loop of p moves from one item to the next in this step
NextItemStarts(p) ==
    /\ run[p].pc \in {"item", "pause", "backoff"}
    /\ run'[p].pc = "item"
    /\ run'[p].processed = run[p].processed + 1

\* C23: when the next item starts after an item that ended without a result
\* (per-item timeout or exception), the run was in its backoff sleep, and the
\* base of that sleep is 2, 4, 8, 16 and then 30 seconds for the failed count.
C23_BackoffAfterFailure ==
    [][\A p \in PairProcs :
          (NextItemStarts(p) /\ run[p].last = NoItem)
          => /\ run[p].pc = "backoff"
             /\ BackoffBase(run[p].failed) =
                   (CASE run[p].failed = 1 -> 2
                      [] run[p].failed = 2 -> 4
                      [] run[p].failed = 3 -> 8
                      [] run[p].failed = 4 -> 16
                      [] OTHER -> 30)]_vars

\* ------------------------------------------------- fetch gate, shared
\* C24: with several coroutines inside one gate, two consecutive returns of
\* the gate, whichever coroutines they belong to, are at least MinInterval
\* apart.
C24_SharedGateSpacing ==
    (gate.prev_return # Null /\ gate.returned_at # Null)
        => gate.returned_at - gate.prev_return >= MinInterval

\* --------------------------------------------------------- candidate search
\* the answers that came back with at least one candidate
NonEmptyAnswers == {k \in DOMAIN matcher.answers : matcher.answers[k] # <<>>}

\* C25: a search makes at most three queries, in the order (name, set,
\* number), (name, number), (name); a query is made only when every earlier
\* one came back empty; and the result is the best match of the first answer
\* that held candidates, or nothing when there was none.
C25_SearchFallbackOrder ==
    matcher.fn = "search_and_find_best_match"
    => LET t == matcher.target
           q == matcher.queries
       IN /\ Len(q) \in 1 .. 3
          /\ q[1] = [name |-> t.name, set_name |-> t.set, localId |-> t.number]
          /\ Len(q) >= 2 => q[2] = [name |-> t.name, set_name |-> Absent, localId |-> t.number]
          /\ Len(q) >= 3 => q[3] = [name |-> t.name, set_name |-> Absent, localId |-> Absent]
          /\ \A k \in DOMAIN q : \A j \in 1 .. (k - 1) : matcher.answers[j] = <<>>
          /\ matcher.pc = "done"
             => /\ NonEmptyAnswers = {} => matcher.result = <<>>
                /\ \A k \in NonEmptyAnswers :
                       /\ k = Len(matcher.answers)
                       /\ matcher.result = FindBestMatch(matcher.answers[k], t)
                       /\ matcher.result # <<>>
                          => \E n \in DOMAIN matcher.answers[k] :
                                 matcher.result[1] = matcher.answers[k][n]

\* the third query alone found candidates, and one of them was returned
C25_Witness ==
    /\ matcher.fn = "search_and_find_best_match"
    /\ matcher.pc = "done"
    /\ Len(matcher.queries) = 3
    /\ Len(matcher.answers[3]) = 2
    /\ matcher.result # <<>>

\* ------------------------------------------------- failing ledger writes
\* C26: no run ends with an error while it had items to process: a ledger
\* write that fails in storage is logged and the run goes on with its items.
C26_LedgerErrorsSwallowed ==
    \A p \in PricingProcs :
        run[p].pc = "error" => CardsForRefresh(p, run[p].card_ids) = <<>>

\* ------------------------------------------------------ pricing items
\* the item p is waiting for is counted failed in this step
ItemCountedFailed(p) ==
    /\ run[p].pc = "item"
    /\ \/ run'[p].pc # "idle" /\ run'[p].failed = run[p].failed + 1
       \/ /\ run'[p].pc = "idle"
          /\ runEnd'[run[p].job_history_id].failed = run[p].failed + 1

\* C27: a step that counts a pricing item failed leaves every snapshot and
\* every price link as it was, and with them the order in which the next run
\* selects the cards.
C27_FailedItemLeavesStorage ==
    [][\A p \in PricingProcs :
          ItemCountedFailed(p)
          => /\ snapshots' = snapshots
             /\ links' = links
             /\ PricingCardsForRefresh(cards', links', {}) = PricingCardsForRefresh(cards, links, {})]_vars

\* an item whose page held prices was counted failed; its card has a
\* snapshot from an earlier run and a link synced then
C27_Witness ==
    LET r == run["sched_prices"] IN
    /\ r.pc = "pause"
    /\ ~r.last.success
    /\ r.last.input = PricedResult
    /\ r.failed >= 1
    /\ links[r.last.card].last_synced_at # Null
    /\ links[r.last.card].last_synced_at < clock
    /\ \E k \in DOMAIN snapshots : snapshots[k].card_id = r.last.card

\* ------------------------------------------------- ownership by the card
\* C28: every stored snapshot and every price link refers to a card that
\* exists, and a card exists only while a collection entry holds it.
C28_OwnedRowsHaveCard ==
    /\ \A k \in DOMAIN snapshots : snapshots[k].card_id \in DOMAIN cards
    /\ DOMAIN links \subseteq DOMAIN cards
    /\ DOMAIN cards \subseteq DOMAIN collection

\* ------------------------------------------------------------- retention
\* the item p was waiting for returns in this step with a page that held prices
ItemFoundPrices(p) ==
    /\ run[p].pc = "item"
    /\ run'[p].pc = "pause"
    /\ run'[p].last.input.pricing_data = "prices"

\* C29: the step in which a pricing item found prices leaves exactly the
\* snapshots it had, in their order and unmodified, less those of the item's
\* card dated before the one-year cutoff, plus one new snapshot of that card
\* dated today.
C29_AppendOneDeleteExpired ==
    [][\A p \in PricingProcs :
          ItemFoundPrices(p)
          => LET id == run'[p].last.card
                 Kept(s) == ~(s.card_id = id /\ s.as_of_date < clock - RetentionYears)
             IN snapshots' = Append(SelectSeq(snapshots, Kept), NewSnapshot(id, clock))]_vars

\* --------------------------------------------------------- price extractor
Buckets == {"ungraded_cents", "psa10_cents", "psa9_cents", "bgs10_cents"}

\* the one bucket the ordered rules give a row text, if any
BucketOfRow(t, b) ==
    CASE b = "ungraded_cents" -> "ungraded" \in t /\ t \cap SubGrades = {}
      [] b = "psa10_cents" -> /\ "ungraded" \notin t
                              /\ "psa 10" \in t
                              /\ t \cap {"black", "pristine"} = {}
      [] b = "psa9_cents" -> "ungraded" \notin t /\ "psa 10" \notin t /\ "psa 9" \in t
      [] b = "bgs10_cents" -> /\ t \cap {"ungraded", "psa 10", "psa 9"} = {}
                              /\ "bgs 10" \in t
                              /\ "black" \notin t

\* the price cells of the page that carry a price, sit in a row and are
\* assigned to bucket b
AssignedTo(b) ==
    {k \in DOMAIN text.price_elements :
        LET e == text.price_elements[k] IN
        /\ e.price_value # Null /\ e.price_value # 0
        /\ e.in_row
        /\ BucketOfRow(e.row_text, b)}

\* C30: no row is assigned to two buckets; a bucket is filled exactly when
\* some row is assigned to it, and then it holds the value of the first such
\* row.
C30_FirstRowPerBucket ==
    text.fn = "_parse_prices_from_html"
    => /\ \A b, c \in Buckets : b # c => AssignedTo(b) \cap AssignedTo(c) = {}
       /\ DOMAIN text.result.prices = {b \in Buckets : AssignedTo(b) # {}}
       /\ \A b \in DOMAIN text.result.prices :
              \E k \in AssignedTo(b) :
                  /\ \A j \in AssignedTo(b) : k <= j
                  /\ text.result.prices[b] = text.price_elements[k].price_value
       /\ text.result.is_none <=> \A b \in Buckets : AssignedTo(b) = {}

\* two rows of one bucket with different prices, after a row that an
\* exclusion rule rejected: the bucket holds the first price
C30_Witness ==
    /\ text.fn = "_parse_prices_from_html"
    /\ Len(text.price_elements) = 2
    /\ AssignedTo("psa10_cents") = {1, 2}
    /\ text.price_elements[1].price_value # text.price_elements[2].price_value
    /\ text.result.prices["psa10_cents"] = text.price_elements[1].price_value

====
